---------------------------- MODULE Spec2Model ----------------------------
(***************************************************************************)
(* Model of the snippet manager: the metadata store                        *)
(* (models/metadata_manager.py), the snippet repository                    *)
(* (models/data_manager.py, models/snippet.py), the selection state        *)
(* (models/snippet_state.py) and the snippet list that drives them         *)
(* (gui/snippet_list.py, gui/app.py).                                      *)
(*                                                                         *)
(* Text (names, categories, labels, prompt text) is a sequence of          *)
(* one-character strings, so that strip/lower/replace are computed.        *)
(* UUIDs are natural numbers handed out by a counter.                      *)
(***************************************************************************)
EXTENDS Integers, Sequences, FiniteSets, TLC

VARIABLES
    metadata,        \* MetadataManager._metadata_cache: categories / labels, insertion ordered
    metadata_file,   \* content of data/metadata.json, the file of the metadata_manager
    snippets_file,   \* content of snippets.json: the persisted snippets, in order
    other_dir,       \* a second data directory: its snippets.json and its metadata.json
    uuid_next,       \* the next value uuid4() returns
    startup,         \* "pending" before DataManager.__init__ ran, then "validated" or "skipped"
    last,            \* the last repository call: its name, argument and result
    state_manager,   \* SnippetStateManager: a record of its fields
    snippet_list,    \* SnippetList: all_snippets and snippets (the displayed ones), in order
    call,            \* the last call made on the selection state: its name and arguments
    filters,         \* SnippetList: the active bubble filters, the AND/OR mode, the search text
    delete_mode,     \* SnippetList.delete_mode
    delete_selections, \* SnippetList.delete_selections: the ids of the snippets of the marked
                     \* tree items; 0 stands for items a refresh has removed from the tree
    excl_applied     \* the <<id, category>> of every set_state(id, SELECTED, category, True)
                     \* made since id was last out of selected_ids

repoVars == <<metadata, metadata_file, snippets_file, other_dir, uuid_next, startup, last>>

stateVars == <<state_manager, call, excl_applied>>

guiVars == <<state_manager, snippet_list, filters, delete_mode, delete_selections, call,
             excl_applied>>

vars == <<metadata, metadata_file, snippets_file, other_dir, uuid_next, startup, last,
          state_manager, snippet_list, filters, delete_mode, delete_selections, call,
          excl_applied>>

(***************************************************************************)
(* Bounds                                                                  *)
(***************************************************************************)
MaxUuid == 13          \* uuid4() is called while uuid_next <= MaxUuid
MaxSnippets == 2       \* add is called while fewer than this many are persisted

(***************************************************************************)
(* Text                                                                    *)
(***************************************************************************)
UpperCase == <<"A", "B", "C", "D", "O", "U", "L", "X", "Y">>
LowerCase == <<"a", "b", "c", "d", "o", "u", "l", "x", "y">>
Whitespace == {" ", "\t", "\n"}

\* str.lower() on one character
lower_char(c) ==
    IF \E i \in 1..Len(UpperCase) : UpperCase[i] = c
    THEN LowerCase[CHOOSE i \in 1..Len(UpperCase) : UpperCase[i] = c]
    ELSE c

\* str.lower()
lower(text) == [i \in 1..Len(text) |-> lower_char(text[i])]

\* str.replace(old, new) for one-character old and new
replace(text, old, new) == [i \in 1..Len(text) |-> IF text[i] = old THEN new ELSE text[i]]

\* str.strip(): drop leading and trailing whitespace
strip(text) ==
    LET keep == {i \in 1..Len(text) : text[i] \notin Whitespace}
    IN  IF keep = {} THEN <<>>
        ELSE LET lo == CHOOSE i \in keep : \A j \in keep : i <= j
                 hi == CHOOSE i \in keep : \A j \in keep : j <= i
             IN  SubSeq(text, lo, hi)

\* the `x in text` test for a one-character x
contains_char(text, c) == \E i \in 1..Len(text) : text[i] = c

\* sanitize_category_label raises ValueError for a category with a comma
sanitize_raises(text, is_category) ==
    text # <<>> /\ is_category /\ contains_char(text, ",")

\* sanitize_category_label, when it does not raise
sanitize_category_label(text, is_category) ==
    IF text = <<>> THEN <<>>
    ELSE replace(replace(lower(strip(text)), " ", "_"), "-", "_")

sanitize_labels(labels) == [i \in 1..Len(labels) |-> sanitize_category_label(labels[i], FALSE)]

UnknownCategory == <<"U","n","k","n","o","w","n"," ","C","a","t","e","g","o","r","y">>
UnknownLabel == <<"U","n","k","n","o","w","n"," ","L","a","b","e","l">>

(***************************************************************************)
(* Metadata store.  metadata.categories and metadata.labels are the        *)
(* "items" dicts, kept as sequences in insertion order; a world w is       *)
(* [md |-> metadata, n |-> next uuid].                                     *)
(***************************************************************************)
ItemIds(items) == {items[i].id : i \in 1..Len(items)}

\* position of the record with this id, 0 when absent (dict lookup by key)
IndexOfId(items, id) ==
    IF id \in ItemIds(items) THEN CHOOSE i \in 1..Len(items) : items[i].id = id ELSE 0

\* position of the first record with this name, 0 when absent (the for loops over items())
IndexOfName(items, name) ==
    LET hits == {i \in 1..Len(items) : items[i].name = name}
    IN  IF hits = {} THEN 0 ELSE CHOOSE i \in hits : \A j \in hits : i <= j

new_item(id, name) == [id |-> id, name |-> name, usage_count |-> 0]

\* an ensure_category_exists that makes a record whether the name has one or not
ensure_category_creates(w, category_name, i) ==
    [md |-> [w.md EXCEPT !.categories = Append(@, new_item(w.n, category_name))],
     n |-> w.n + 1, id |-> w.n]

\* the two branches of ensure_category_exists, i being the position of the name
ensure_category_at(w, category_name, i) ==
    IF i # 0
    THEN [md |-> w.md, n |-> w.n, id |-> w.md.categories[i].id]
    ELSE [md |-> [w.md EXCEPT !.categories = Append(@, new_item(w.n, category_name))],
          n |-> w.n + 1, id |-> w.n]

ensure_category_exists(w, category_name) ==
    ensure_category_at(w, category_name, IndexOfName(w.md.categories, category_name))

\* the two branches of ensure_label_exists, i being the position of the name
ensure_label_at(w, label_name, i) ==
    IF i # 0
    THEN [md |-> w.md, n |-> w.n, id |-> w.md.labels[i].id]
    ELSE [md |-> [w.md EXCEPT !.labels = Append(@, new_item(w.n, label_name))],
          n |-> w.n + 1, id |-> w.n]

ensure_label_exists(w, label_name) ==
    ensure_label_at(w, label_name, IndexOfName(w.md.labels, label_name))

\* the list comprehension of ensure_labels_exist: first is the result for the first
\* name, rest the result for the names after it
ensure_labels_collect(first, rest) ==
    [md |-> rest.md, n |-> rest.n, ids |-> <<first.id>> \o rest.ids]

RECURSIVE ensure_labels_exist(_, _)
ensure_labels_after(first, label_names) ==
    ensure_labels_collect(first, ensure_labels_exist([md |-> first.md, n |-> first.n], label_names))

ensure_labels_exist(w, label_names) ==
    IF label_names = <<>> THEN [md |-> w.md, n |-> w.n, ids |-> <<>>]
    ELSE ensure_labels_after(ensure_label_exists(w, Head(label_names)), Tail(label_names))

\* usage_count += 1 on the record at position i (no record: nothing is written)
increment_at(md, item_type, i) ==
    IF i = 0 THEN md ELSE [md EXCEPT ![item_type][i].usage_count = @ + 1]

increment_snippet_count(md, item_type, item_id) ==
    increment_at(md, item_type, IndexOfId(md[item_type], item_id))

\* usage_count = max(0, usage_count - 1) on the record at position i
decrement_at(md, item_type, i) ==
    IF i = 0 THEN md
    ELSE [md EXCEPT ![item_type][i].usage_count = IF @ - 1 > 0 THEN @ - 1 ELSE 0]

\* a decrement that is not written back
decrement_snippet_count_lost(md, item_type, item_id) == md

decrement_snippet_count(md, item_type, item_id) ==
    decrement_at(md, item_type, IndexOfId(md[item_type], item_id))

count_one(md, item_type, item_id, increment) ==
    IF increment THEN increment_snippet_count(md, item_type, item_id)
    ELSE decrement_snippet_count(md, item_type, item_id)

RECURSIVE count_labels(_, _, _)
count_labels(md, label_ids, increment) ==
    IF label_ids = <<>> THEN md
    ELSE count_labels(count_one(md, "labels", Head(label_ids), increment),
                      Tail(label_ids), increment)

\* update_snippet_counts_for_snippet once the category (c) and the labels (l) exist
update_counts_of(c, l, increment) ==
    [md |-> count_labels(count_one(l.md, "categories", c.id, increment), l.ids, increment),
     n |-> l.n, category_id |-> c.id, label_ids |-> l.ids]

\* update_snippet_counts_for_snippet once the category (c) exists
update_counts_after_category(c, label_names, increment) ==
    update_counts_of(c, ensure_labels_exist([md |-> c.md, n |-> c.n], label_names), increment)

update_snippet_counts_for_snippet(w, category_name, label_names, increment) ==
    update_counts_after_category(ensure_category_exists(w, category_name), label_names, increment)

\* the scan of validate_metadata_references: ids referenced by the snippets without a record
orphaned_categories(md, snippets_data) ==
    {snippets_data[i].category_id : i \in 1..Len(snippets_data)} \ ItemIds(md.categories)

\* the (snippet, position) pairs of all label references
LabelRefPositions(snippets_data) ==
    UNION {{<<i, j>> : j \in 1..Len(snippets_data[i].label_ids)} : i \in 1..Len(snippets_data)}

orphaned_labels(md, snippets_data) ==
    {snippets_data[p[1]].label_ids[p[2]] : p \in LabelRefPositions(snippets_data)} \ ItemIds(md.labels)

\* the records of items whose usage_count is not 0
items_in_use(items) == SelectSeq(items, LAMBDA item : item.usage_count # 0)

\* cleanup_unused_metadata: with keep_unused the records are only counted
cleanup_unused_metadata(md, keep_unused) ==
    IF keep_unused THEN md
    ELSE [categories |-> items_in_use(md.categories), labels |-> items_in_use(md.labels)]

\* the orders in which a Python set can be iterated
Orders(S) == {f \in [1..Cardinality(S) -> S] : \A i, j \in 1..Cardinality(S) : f[i] = f[j] => i = j}

\* a validation that gives no record to the orphaned labels
validate_categories_only(md, snippets_data, cat_order, label_order) ==
    [categories |-> md.categories \o [i \in 1..Len(cat_order) |-> new_item(cat_order[i], UnknownCategory)],
     labels |-> md.labels]

\* validate_metadata_references; cat_order / label_order are the iteration orders of
\* the two orphan sets, which decide the insertion order of the placeholders
validate_metadata_references(md, snippets_data, cat_order, label_order) ==
    [categories |-> md.categories \o [i \in 1..Len(cat_order) |-> new_item(cat_order[i], UnknownCategory)],
     labels |-> md.labels \o [i \in 1..Len(label_order) |-> new_item(label_order[i], UnknownLabel)]]

\* number of snippets whose category_id is id
category_refs(snippets_data, id) ==
    Cardinality({i \in 1..Len(snippets_data) : snippets_data[i].category_id = id})

\* number of occurrences of id in the label_ids of the snippets
label_refs(snippets_data, id) ==
    Cardinality({p \in LabelRefPositions(snippets_data) : snippets_data[p[1]].label_ids[p[2]] = id})

refresh_usage_counts(md, snippets_data) ==
    [categories |-> [i \in 1..Len(md.categories) |->
                        [md.categories[i] EXCEPT !.usage_count = category_refs(snippets_data, md.categories[i].id)]],
     labels |-> [i \in 1..Len(md.labels) |->
                        [md.labels[i] EXCEPT !.usage_count = label_refs(snippets_data, md.labels[i].id)]]]

validate_and_refresh_from_snippets(md, snippets_data, cat_order, label_order) ==
    refresh_usage_counts(validate_metadata_references(md, snippets_data, cat_order, label_order),
                         snippets_data)

\* metadata.json after a write that failed inside json.dump: open() has truncated it
Unreadable == [categories |-> <<>>, labels |-> <<>>, unreadable |-> TRUE]

\* _save_metadata: the outcomes of writing metadata.json are those of writing
\* snippets.json.  Nothing in the store catches a failed write: it raises out of
\* _save_metadata and out of the operation that called it.  The cache is the dict the
\* operation has already changed, so cache is the new value whatever the outcome.
save_metadata(file, md, write) ==
    [cache |-> md,
     file |-> CASE write = "ok" -> md
                [] write = "open_fails" -> file
                [] write = "dump_fails" -> Unreadable,
     raised |-> (write # "ok")]

(***************************************************************************)
(* Snippet (models/snippet.py).  A persisted snippet is                    *)
(* [id, name, category_id, prompt_text, label_ids, exclusive].             *)
(***************************************************************************)
category_name_at(md, i) == IF i # 0 THEN md.categories[i].name ELSE UnknownCategory

get_category_name(md, snippet) ==
    category_name_at(md, IndexOfId(md.categories, snippet.category_id))

label_name_at(md, i) == IF i # 0 THEN <<md.labels[i].name>> ELSE <<>>

RECURSIVE names_of_labels(_, _)
names_of_labels(md, label_ids) ==
    IF label_ids = <<>> THEN <<>>
    ELSE label_name_at(md, IndexOfId(md.labels, Head(label_ids)))
            \o names_of_labels(md, Tail(label_ids))

get_label_names(md, snippet) == names_of_labels(md, snippet.label_ids)

\* the Snippet that create builds from the ids (u) the metadata manager returned
new_snippet_of(u, name, prompt_text, exclusive) ==
    [md |-> u.md, n |-> u.n + 1,
     snippet |-> [id |-> u.n, name |-> name, category_id |-> u.category_id,
                  prompt_text |-> prompt_text, label_ids |-> u.label_ids,
                  exclusive |-> exclusive]]

Snippet_create(w, name, category, prompt_text, labels, exclusive) ==
    new_snippet_of(update_snippet_counts_for_snippet(w, category, labels, TRUE),
                   name, prompt_text, exclusive)

world_of(u) == [md |-> u.md, n |-> u.n]

Snippet_delete(w, snippet) ==
    world_of(update_snippet_counts_for_snippet(w, get_category_name(w.md, snippet),
                                               get_label_names(w.md, snippet), FALSE))

(***************************************************************************)
(* Repository (models/data_manager.py).  A repository state r is           *)
(* [file |-> snippets.json, md |-> metadata, n |-> next uuid]; every call  *)
(* returns the new state and ret, the call's return value.  write is the   *)
(* outcome of writing snippets.json.                                       *)
(***************************************************************************)
\* the outcomes of writing snippets.json: the write succeeds, open() fails and leaves the
\* file as it was, or json.dump fails after open() truncated the file, and load_snippets
\* then reads no snippets from what is left
WriteOutcomes == {"ok", "open_fails", "dump_fails"}

save_snippets(file, snippets, write) ==
    CASE write = "ok" -> snippets
      [] write = "open_fails" -> file
      [] write = "dump_fails" -> <<>>

PositionOfId(snippets, id) ==
    LET hits == {i \in 1..Len(snippets) : snippets[i].id = id}
    IN  IF hits = {} THEN 0 ELSE CHOOSE i \in hits : \A j \in hits : i <= j

\* what a call returns when it has saved `snippets` with the metadata of world w
saved(r, w, snippets, write) ==
    [file |-> save_snippets(r.file, snippets, write), md |-> w.md, n |-> w.n, ret |-> (write = "ok")]

\* what a call returns from its exception handler or early return
returned_false(r) == [file |-> r.file, md |-> r.md, n |-> r.n, ret |-> FALSE]

\* an add that puts the new record in front
add_in_front(r, c, write) == saved(r, c, <<c.snippet>> \o r.file, write)

\* add_snippet from the created Snippet (c) on
add_created(r, c, write) == saved(r, c, Append(r.file, c.snippet), write)

add_snippet(r, snippet_data, write) ==
    IF sanitize_raises(snippet_data.category, TRUE)
    THEN returned_false(r)
    ELSE add_created(r, Snippet_create([md |-> r.md, n |-> r.n],
                                       snippet_data.name,
                                       sanitize_category_label(snippet_data.category, TRUE),
                                       snippet_data.prompt_text,
                                       sanitize_labels(snippet_data.labels),
                                       snippet_data.exclusive),
                     write)

\* an update that forgets to preserve the original id
update_forgets_id(r, snippet_data, write, i, c) ==
    saved(r, c, [r.file EXCEPT ![i] = c.snippet], write)

\* update_snippet from the new Snippet (c) on: restore the id, replace record i
update_replaced(r, snippet_data, write, i, c) ==
    saved(r, c, [r.file EXCEPT ![i] = [c.snippet EXCEPT !.id = snippet_data.id]], write)

\* an update that adds the snippet when it does not find the id
update_or_add(r, snippet_data, write, i) ==
    IF i = 0
    THEN add_snippet(r, snippet_data, write)
    ELSE update_replaced(r, snippet_data, write, i,
                         Snippet_create(Snippet_delete([md |-> r.md, n |-> r.n], r.file[i]),
                                        snippet_data.name, snippet_data.category,
                                        snippet_data.prompt_text, snippet_data.labels,
                                        snippet_data.exclusive))

\* update_snippet once the position i of the existing snippet is known (0: not found)
update_at(r, snippet_data, write, i) ==
    IF i = 0
    THEN returned_false(r)
    ELSE update_replaced(r, snippet_data, write, i,
                         Snippet_create(Snippet_delete([md |-> r.md, n |-> r.n], r.file[i]),
                                        snippet_data.name, snippet_data.category,
                                        snippet_data.prompt_text, snippet_data.labels,
                                        snippet_data.exclusive))

update_snippet(r, snippet_data, write) ==
    update_at(r, snippet_data, write, PositionOfId(r.file, snippet_data.id))

RECURSIVE delete_each(_, _)
delete_each(w, snippets_to_delete) ==
    IF snippets_to_delete = <<>> THEN w
    ELSE delete_each(Snippet_delete(w, Head(snippets_to_delete)), Tail(snippets_to_delete))

\* snippet_ids is used for membership tests only, so it is modelled as a set
delete_snippets(r, snippet_ids, write) ==
    saved(r,
          delete_each([md |-> r.md, n |-> r.n], SelectSeq(r.file, LAMBDA s : s.id \in snippet_ids)),
          SelectSeq(r.file, LAMBDA s : s.id \notin snippet_ids),
          write)

(***************************************************************************)
(* Selection state (models/snippet_state.py).  A dict is a function on its *)
(* keys.  A category argument of None and one of "" are both <<>>: the     *)
(* code only tests the argument for truth before it uses it as a key.      *)
(* The states are "selected" and "unselected"; "none" is a state argument  *)
(* of None.                                                                *)
(***************************************************************************)
EmptyDict == [k \in {} |-> 0]

\* d[k] = v
dict_set(d, k, v) == [x \in (DOMAIN d) \cup {k} |-> IF x = k THEN v ELSE d[x]]

\* d.pop(k, None)
dict_pop(d, k) == [x \in (DOMAIN d) \ {k} |-> d[x]]

\* d.get(k) == v
dict_get_is(d, k, v) == k \in DOMAIN d /\ d[k] = v

SnippetStateManager_create ==
    [state_map |-> EmptyDict, selected_ids |-> {}, category_selections |-> EmptyDict,
     is_filtered |-> FALSE, search_text |-> <<>>, filtered_ids |-> {}]

get_state(sm, snippet_id) ==
    IF snippet_id \in DOMAIN sm.state_map THEN sm.state_map[snippet_id] ELSE "unselected"

set_state(sm, snippet_id, state, category, exclusive) ==
    IF state = "none"
    THEN [sm EXCEPT !.state_map = dict_pop(@, snippet_id),
                    !.selected_ids = @ \ {snippet_id}]
    ELSE IF state = "selected"
    THEN [sm EXCEPT !.state_map = dict_set(@, snippet_id, state),
                    !.selected_ids = @ \cup {snippet_id},
                    !.category_selections =
                        IF exclusive /\ category # <<>>
                        THEN dict_set(@, category, snippet_id) ELSE @]
    ELSE [sm EXCEPT !.state_map = dict_set(@, snippet_id, state),
                    !.selected_ids = @ \ {snippet_id},
                    !.category_selections =
                        IF category # <<>> /\ dict_get_is(@, category, snippet_id)
                        THEN dict_pop(@, category) ELSE @]

can_select_snippet(sm, snippet_id, category, exclusive) ==
    IF exclusive
    THEN \/ category \notin DOMAIN sm.category_selections
         \/ sm.category_selections[category] = snippet_id
    ELSE TRUE

\* the loop calls set_state(id, UNSELECTED) on every id whose state is SELECTED
clear_all_selections(sm) ==
    [sm EXCEPT !.selected_ids = {},
               !.category_selections = EmptyDict,
               !.state_map = [k \in DOMAIN sm.state_map |->
                                 IF sm.state_map[k] = "selected" THEN "unselected"
                                 ELSE sm.state_map[k]]]

\* a filter that deselects what it hides
set_search_filter_deselecting(sm, search_text, filtered_ids) ==
    [sm EXCEPT !.search_text = search_text,
               !.filtered_ids = filtered_ids,
               !.is_filtered = (search_text # <<>>),
               !.selected_ids = @ \cap filtered_ids]

set_search_filter(sm, search_text, filtered_ids) ==
    [sm EXCEPT !.search_text = search_text,
               !.filtered_ids = filtered_ids,
               !.is_filtered = (search_text # <<>>)]

clear_search_filter(sm) ==
    [sm EXCEPT !.search_text = <<>>, !.filtered_ids = {}, !.is_filtered = FALSE]

\* snippet_ids is only iterated to remove each id, so it is modelled as a set
clear_selections(sm, snippet_ids) ==
    [sm EXCEPT !.state_map = [k \in (DOMAIN sm.state_map) \ snippet_ids |-> sm.state_map[k]],
               !.selected_ids = @ \ snippet_ids,
               !.category_selections =
                   [c \in {k \in DOMAIN sm.category_selections :
                              sm.category_selections[k] \notin snippet_ids}
                      |-> sm.category_selections[c]]]

(***************************************************************************)
(* Snippet list (gui/snippet_list.py) with the callbacks of the            *)
(* application (gui/app.py) and the snippet dialog (gui/snippet_dialog.py).*)
(* A list state g is [sm |-> the selection state, all_snippets |-> the     *)
(* dict of all snippets, snippets |-> the displayed snippets], both in     *)
(* insertion order.  A snippet of the list is                              *)
(* [id, name, category, prompt_text, labels, exclusive] with category and  *)
(* labels as text.                                                         *)
(***************************************************************************)
gui_snippet(md, snippet) ==
    [id |-> snippet.id, name |-> snippet.name, category |-> get_category_name(md, snippet),
     prompt_text |-> snippet.prompt_text, labels |-> get_label_names(md, snippet),
     exclusive |-> snippet.exclusive]

load_snippets_for_gui(file, md) == [i \in 1..Len(file) |-> gui_snippet(md, file[i])]

SnippetIds(snippets) == {snippets[i].id : i \in 1..Len(snippets)}

\* all_snippets[snippet['id']] = snippet
store_snippet(all_snippets, snippet) ==
    IF snippet.id \in SnippetIds(all_snippets)
    THEN [i \in 1..Len(all_snippets) |->
             IF all_snippets[i].id = snippet.id THEN snippet ELSE all_snippets[i]]
    ELSE Append(all_snippets, snippet)

\* the loops that call set_state(SELECTED) on the displayed snippets that were selected
RECURSIVE restore_states(_, _, _)
restore_states(sm, display, selected_ids) ==
    IF display = <<>> THEN sm
    ELSE restore_states(IF Head(display).id \in selected_ids
                        THEN set_state(sm, Head(display).id, "selected",
                                       Head(display).category, Head(display).exclusive)
                        ELSE sm,
                        Tail(display), selected_ids)

\* all_snippets[id] for the ids of a sequence
RECURSIVE snippets_of(_, _)
snippets_of(all_snippets, ids) ==
    IF ids = <<>> THEN <<>>
    ELSE SelectSeq(all_snippets, LAMBDA s : s.id = Head(ids)) \o snippets_of(all_snippets, Tail(ids))

\* display_snippets of _refresh_tree_view; order is the iteration order of filtered_ids
display_snippets(g, order) ==
    IF g.sm.is_filtered THEN snippets_of(g.all_snippets, order) ELSE g.all_snippets

displayed(g, display) ==
    [g EXCEPT !.snippets = display,
              !.sm = restore_states(g.sm, display, g.sm.selected_ids)]

refresh_tree_view(g, order) == displayed(g, display_snippets(g, order))

load_snippets(g, snippets) ==
    [sm |-> restore_states(g.sm, snippets, g.sm.selected_ids),
     all_snippets |-> snippets, snippets |-> snippets]

has_selection_conflict(g, snippet) ==
    /\ snippet.exclusive
    /\ \E i \in 1..Len(g.all_snippets) :
          /\ g.all_snippets[i].category = snippet.category
          /\ g.all_snippets[i].id # snippet.id
          /\ g.all_snippets[i].id \in g.sm.selected_ids

\* the click is on the symbol column of a displayed snippet
click_refused(g, snippet) ==
    get_state(g.sm, snippet.id) # "selected" /\ has_selection_conflict(g, snippet)

new_state(g, snippet) ==
    IF get_state(g.sm, snippet.id) # "selected" THEN "selected" ELSE "unselected"

on_tree_click(g, snippet) ==
    IF click_refused(g, snippet) THEN g
    ELSE [g EXCEPT !.sm = set_state(g.sm, snippet.id, new_state(g, snippet),
                                    snippet.category, snippet.exclusive)]

\* PromptSnippetsApp._on_snippet_edit
on_snippet_edit(r, snippet) ==
    IF snippet.id \in SnippetIds(r.file)
    THEN update_snippet(r, snippet, "ok")
    ELSE add_snippet(r, snippet, "ok")

\* _add_new_snippet and _update_snippet after the storage callback returned true
store_and_refresh(g, snippet, order) ==
    refresh_tree_view([g EXCEPT !.all_snippets = store_snippet(@, snippet)], order)

\* _delete_snippets after the callback; reloaded is the list as load_snippets left it
forget_snippets(reloaded, snippet_ids, order) ==
    refresh_tree_view(
        [sm |-> clear_selections(reloaded.sm, snippet_ids),
         all_snippets |-> SelectSeq(reloaded.all_snippets, LAMBDA s : s.id \notin snippet_ids),
         snippets |-> SelectSeq(reloaded.snippets, LAMBDA s : s.id \notin snippet_ids)],
        order)

\* SnippetDialog._validate_fields
validate_fields(fields) ==
    /\ strip(fields.name) # <<>>
    /\ strip(fields.category) # <<>>
    /\ strip(fields.prompt_text) # <<>>
    /\ ~contains_char(strip(fields.prompt_text), ";")

strip_each(labels) == [i \in 1..Len(labels) |-> strip(labels[i])]

\* SnippetDialog._prepare_result (the fields are valid); labels is the split text
prepare_result(fields, id) ==
    [id |-> id, name |-> strip(fields.name), category |-> strip(fields.category),
     labels |-> SelectSeq(strip_each(fields.labels), LAMBDA l : l # <<>>),
     prompt_text |-> strip(fields.prompt_text), exclusive |-> fields.exclusive]

\* SnippetDialog._on_field_change: Save as New is enabled
has_changes(fields, original) ==
    \/ strip(fields.name) # original.name
    \/ strip(fields.category) # original.category
    \/ fields.labels # original.labels
    \/ strip(fields.prompt_text) # original.prompt_text
    \/ fields.exclusive # original.exclusive

(***************************************************************************)
(* The filters of the snippet list (gui/snippet_list.py).  f is the filter *)
(* state [active_category_filters, active_label_filters, filter_mode,      *)
(* search_var].  search_var has a write trace: every write of the search   *)
(* text, by the user or by a handler, runs _on_search_changed.  A set of   *)
(* ids is iterated in the order `total` gives to its members.              *)
(***************************************************************************)
\* SnippetList.__init__ and _create_search_frame: no bubble is active, the mode is AND
\* and the search entry shows its placeholder
Placeholder == <<"Search snippets...">>

NoFilters ==
    [active_category_filters |-> {}, active_label_filters |-> {}, filter_mode |-> "AND",
     search_var |-> Placeholder]

\* the `x in text` test of str
in_text(x, text) == \E i \in 0..(Len(text) - Len(x)) : SubSeq(text, i + 1, i + Len(x)) = x

in_any(x, labels) == \E i \in 1..Len(labels) : in_text(x, labels[i])

lower_each(labels) == [i \in 1..Len(labels) |-> lower(labels[i])]

searchable_each(labels) == [i \in 1..Len(labels) |-> replace(lower(labels[i]), "_", " ")]

\* search_var.get().strip().lower(); the placeholder has no letter that lower() changes
search_text_of(f) == lower(strip(f.search_var))

has_text_search(f) == search_text_of(f) # <<>> /\ search_text_of(f) # Placeholder

bubbles_active(f) == f.active_category_filters # {} \/ f.active_label_filters # {}

\* the condition of _on_search_changed: the fields with '_' as ' ', then the fields as
\* they are
search_matches(snippet, search_text) ==
    \/ in_text(search_text, replace(lower(snippet.name), "_", " "))
    \/ in_text(search_text, replace(lower(snippet.category), "_", " "))
    \/ in_text(search_text, replace(lower(snippet.prompt_text), "_", " "))
    \/ in_any(search_text, searchable_each(snippet.labels))
    \/ in_text(search_text, lower(snippet.name))
    \/ in_text(search_text, lower(snippet.category))
    \/ in_text(search_text, lower(snippet.prompt_text))
    \/ in_any(search_text, lower_each(snippet.labels))

\* the condition of _apply_bubble_filters: the fields as they are
bubble_text_matches(snippet, search_text) ==
    \/ in_text(search_text, lower(snippet.name))
    \/ in_text(search_text, lower(snippet.category))
    \/ in_text(search_text, lower(snippet.prompt_text))
    \/ in_any(search_text, lower_each(snippet.labels))

LabelSet(labels) == {labels[i] : i \in 1..Len(labels)}

\* AND mode of _get_bubble_filtered_ids
and_match(snippet, f) ==
    /\ \/ f.active_category_filters = {}
       \/ f.active_category_filters \subseteq {snippet.category}
    /\ \/ f.active_label_filters = {}
       \/ f.active_label_filters \subseteq LabelSet(snippet.labels)

\* an OR mode in which an empty active set matches every snippet
or_match_empty_matches(snippet, f) ==
    \/ f.active_category_filters \subseteq {snippet.category}
    \/ f.active_label_filters \cap LabelSet(snippet.labels) # {}

\* OR mode of _get_bubble_filtered_ids
or_match(snippet, f) ==
    \/ f.active_category_filters \cap {snippet.category} # {}
    \/ f.active_label_filters \cap LabelSet(snippet.labels) # {}

get_bubble_filtered_ids(all_snippets, f) ==
    IF ~bubbles_active(f) THEN SnippetIds(all_snippets)
    ELSE IF f.filter_mode = "AND"
         THEN {all_snippets[i].id : i \in {j \in 1..Len(all_snippets) : and_match(all_snippets[j], f)}}
         ELSE {all_snippets[i].id : i \in {j \in 1..Len(all_snippets) : or_match(all_snippets[j], f)}}

\* _get_filter_description without the names of the filters: "" when no bubble is active
get_filter_description(f) ==
    IF ~bubbles_active(f) THEN <<>>
    ELSE <<"[", f.filter_mode, "]">>
            \o (IF f.active_category_filters # {} THEN <<"Categories">> ELSE <<>>)
            \o (IF f.active_label_filters # {} THEN <<"Labels">> ELSE <<>>)

\* _refresh_tree_view, the filtered ids iterated in the order of total
refresh_in(g, total) ==
    refresh_tree_view(g, SelectSeq(total, LAMBDA id : id \in g.sm.filtered_ids))

\* set_search_filter, then _refresh_tree_view
filter_and_refresh(g, filter_desc, final_matching_ids, total) ==
    refresh_in([g EXCEPT !.sm = set_search_filter(@, filter_desc, final_matching_ids)], total)

\* text_matching_ids of _on_search_changed
search_matching_ids(all_snippets, search_text) ==
    {all_snippets[i].id :
        i \in {j \in 1..Len(all_snippets) : search_matches(all_snippets[j], search_text)}}

\* _on_search_changed with a search text
search_filtered(g, f, total) ==
    filter_and_refresh(
        g,
        <<"Text">> \o search_text_of(f)
            \o (IF bubbles_active(f) THEN <<"+">> \o get_filter_description(f) ELSE <<>>),
        IF bubbles_active(f)
        THEN search_matching_ids(g.all_snippets, search_text_of(f))
                \cap get_bubble_filtered_ids(g.all_snippets, f)
        ELSE search_matching_ids(g.all_snippets, search_text_of(f)),
        total)

\* text_matching_ids of _apply_bubble_filters
bubble_text_matching_ids(all_snippets, search_text) ==
    {all_snippets[i].id :
        i \in {j \in 1..Len(all_snippets) : bubble_text_matches(all_snippets[j], search_text)}}

\* _apply_bubble_filters with an active bubble
bubble_filtered(g, f, total) ==
    filter_and_refresh(
        g,
        IF has_text_search(f)
        THEN <<"Text">> \o search_text_of(f) \o <<"+">> \o get_filter_description(f)
        ELSE get_filter_description(f),
        IF has_text_search(f)
        THEN get_bubble_filtered_ids(g.all_snippets, f)
                \cap bubble_text_matching_ids(g.all_snippets, search_text_of(f))
        ELSE get_bubble_filtered_ids(g.all_snippets, f),
        total)

apply_bubble_filters(g, f, total) ==
    IF bubbles_active(f) THEN bubble_filtered(g, f, total)
    ELSE IF has_text_search(f) THEN search_filtered(g, f, total)
    ELSE refresh_in([g EXCEPT !.sm = clear_search_filter(@)], total)

on_search_changed(g, f, total) ==
    IF search_text_of(f) = Placeholder THEN g
    ELSE IF search_text_of(f) = <<>>
         THEN IF bubbles_active(f) THEN bubble_filtered(g, f, total)
              ELSE filter_and_refresh(g, <<>>, SnippetIds(g.all_snippets), total)
         ELSE search_filtered(g, f, total)

toggled(S, value) == IF value \in S THEN S \ {value} ELSE S \cup {value}

\* the filter state after _toggle_bubble_filter
bubble_toggled(f, filter_type, filter_value) ==
    IF filter_type = "category"
    THEN [f EXCEPT !.active_category_filters = toggled(@, filter_value)]
    ELSE [f EXCEPT !.active_label_filters = toggled(@, filter_value)]

toggle_bubble_filter(g, f, filter_type, filter_value, total) ==
    apply_bubble_filters(g, bubble_toggled(f, filter_type, filter_value), total)

\* the filter state after _toggle_filter_mode
mode_toggled(f) == [f EXCEPT !.filter_mode = IF @ = "AND" THEN "OR" ELSE "AND"]

toggle_filter_mode(g, f, total) == apply_bubble_filters(g, mode_toggled(f), total)

\* search_entry.delete(0, END): the write of the emptied text runs _on_search_changed
entry_deleted(g, f, total) ==
    IF f.search_var = <<>> THEN g
    ELSE on_search_changed(g, [f EXCEPT !.search_var = <<>>], total)

\* what _clear_search does once the entry is emptied and shows the placeholder (the
\* write of the placeholder runs _on_search_changed, which returns at once)
search_cleared(g, total) == refresh_in([g EXCEPT !.sm = clear_search_filter(@)], total)

clear_search(g, f, total) == search_cleared(entry_deleted(g, f, total), total)

\* the filter state after _clear_all_filters
filters_cleared(f) ==
    [f EXCEPT !.active_category_filters = {}, !.active_label_filters = {},
              !.search_var = Placeholder]

\* _clear_all_filters: the sets are cleared, then _clear_search, then _apply_bubble_filters
clear_all_filters(g, f, total) ==
    apply_bubble_filters(
        clear_search(g, [f EXCEPT !.active_category_filters = {}, !.active_label_filters = {}],
                     total),
        filters_cleared(f), total)

\* _on_search_focus_in on the placeholder: the entry is emptied, then search_var.set('')
on_search_focus_in(g, f, total) ==
    on_search_changed(entry_deleted(g, f, total), [f EXCEPT !.search_var = <<>>], total)

\* _on_search_focus_out on an empty or blank text
on_search_focus_out(g, total) == filter_and_refresh(g, <<>>, {}, total)

(***************************************************************************)
(* Inputs                                                                  *)
(***************************************************************************)
DemoCat == <<"D","e","m","o"," ","C","a","t">>
Other == <<"O","t","h","e","r">>

CategoryTexts == {DemoCat, Other}
LabelTexts == {<<>>, << <<"a">>, <<"A">> >>}

\* what a caller passes to add / update (id is read by update only)
SnippetData(ids) ==
    [id : ids, name : {<<"A">>}, category : CategoryTexts, prompt_text : {<<"h","i">>},
     labels : LabelTexts, exclusive : {FALSE}]

\* ids no snippet has
UnknownIds == {999}

FileIds(file) == {file[i].id : i \in 1..Len(file)}

\* snippets.json and metadata.json as a previous session, a crash or a copied file left
\* them: ids 1 and 3 may have records, ids 6, 7 and 8 have none
InitSnippet(id, category_id, label_ids) ==
    [id |-> id, name |-> <<"A">>, category_id |-> category_id, prompt_text |-> <<"h","i">>,
     label_ids |-> label_ids, exclusive |-> FALSE]

KnownMetadata ==
    [categories |-> <<[id |-> 1, name |-> <<"x">>, usage_count |-> 0]>>,
     labels |-> <<[id |-> 3, name |-> <<"a">>, usage_count |-> 2]>>]

EmptyMetadata == [categories |-> <<>>, labels |-> <<>>]

\* a second data directory in which no repository has been constructed
OtherDirUnused == [snippets_file |-> <<>>, metadata_file |-> EmptyMetadata, startup |-> "pending"]

\* the pairs (snippets.json, metadata.json) a session can start from: nothing; a
\* consistent pair with stale counts; snippets whose metadata file was lost (two
\* orphan categories); a snippet with two orphan labels; no snippet left next to the
\* metadata of earlier sessions
InitDisks ==
    { [file |-> <<>>, md |-> EmptyMetadata],
      [file |-> <<InitSnippet(101, 1, <<3>>)>>, md |-> KnownMetadata],
      [file |-> <<InitSnippet(101, 1, <<>>), InitSnippet(102, 8, <<>>)>>, md |-> EmptyMetadata],
      [file |-> <<InitSnippet(101, 1, <<6, 7>>)>>, md |-> KnownMetadata],
      [file |-> <<>>, md |-> KnownMetadata] }

NoStateCall ==
    [op |-> "none", id |-> 0, state |-> "none", category |-> <<>>, exclusive |-> FALSE,
     ids |-> {}, refused |-> FALSE]

StateInit ==
    /\ state_manager = SnippetStateManager_create
    /\ snippet_list = [all_snippets |-> <<>>, snippets |-> <<>>]
    /\ filters = NoFilters
    /\ delete_mode = FALSE
    /\ delete_selections = {}
    /\ call = NoStateCall
    /\ excl_applied = {}

\* id is the id an ensure call returned (0: none), created whether it made the record
NoCall == [op |-> "none", ret |-> FALSE, data |-> <<>>, ids |-> {}, undo |-> FALSE,
           add_md |-> EmptyMetadata, write |-> "ok", raised |-> FALSE,
           id |-> 0, created |-> FALSE]

Init ==
    /\ \E disk \in InitDisks :
          snippets_file = disk.file /\ metadata = disk.md /\ metadata_file = disk.md
    /\ uuid_next = 10
    /\ startup = "pending"
    /\ other_dir = OtherDirUnused
    /\ last = NoCall
    /\ StateInit

Repo == [file |-> snippets_file, md |-> metadata, n |-> uuid_next]

(***************************************************************************)
(* Actions of the repository                                               *)
(***************************************************************************)
\* DataManager.__init__ -> _validate_metadata_on_startup
ValidateOnStartup ==
    /\ startup = "pending"
    /\ IF snippets_file = <<>>
       THEN /\ startup' = "skipped"
            /\ UNCHANGED <<metadata, metadata_file>>
       ELSE /\ startup' = "validated"
            /\ \E co \in Orders(orphaned_categories(metadata, snippets_file)),
                  lo \in Orders(orphaned_labels(metadata, snippets_file)) :
                   metadata' = validate_and_refresh_from_snippets(metadata, snippets_file, co, lo)
            /\ metadata_file' = metadata'
    /\ UNCHANGED <<snippets_file, other_dir, uuid_next, last>>

Startup == ValidateOnStartup /\ UNCHANGED guiVars

\* the writes of a repository call, and the record of the call
Commit(res, record) ==
    /\ res.n <= MaxUuid + 1
    /\ snippets_file' = res.file
    /\ metadata' = res.md
    /\ metadata_file' = res.md
    /\ uuid_next' = res.n
    /\ last' = [record EXCEPT !.ret = res.ret]

\* last.add_md is the metadata from before the add
AddSnippet(data) ==
    /\ startup # "pending"
    /\ Len(snippets_file) < MaxSnippets
    /\ Commit(add_snippet(Repo, data, "ok"),
              [NoCall EXCEPT !.op = "add", !.data = data, !.add_md = metadata])
    /\ UNCHANGED <<startup, other_dir>>
    /\ UNCHANGED guiVars

UpdateSnippet(data) ==
    /\ startup # "pending"
    /\ Commit(update_snippet(Repo, data, "ok"), [NoCall EXCEPT !.op = "update", !.data = data])
    /\ UNCHANGED <<startup, other_dir>>
    /\ UNCHANGED guiVars

\* last.undo says that the call deletes exactly the snippet that the call before it
\* added; last.add_md is then the metadata from before that add
IsUndo(ids) ==
    /\ last.op = "add" /\ last.ret
    /\ ids = {snippets_file[Len(snippets_file)].id}

DeleteSnippets(ids) ==
    /\ startup # "pending"
    /\ Commit(delete_snippets(Repo, ids, "ok"),
              [NoCall EXCEPT !.op = "delete_many", !.ids = ids, !.undo = IsUndo(ids),
                             !.add_md = IF IsUndo(ids) THEN last.add_md ELSE EmptyMetadata])
    /\ UNCHANGED <<startup, other_dir>>
    /\ UNCHANGED guiVars

Next ==
    \/ Startup
    \/ \E data \in SnippetData({0}) : AddSnippet(data)
    \/ \E data \in SnippetData(FileIds(snippets_file) \cup UnknownIds) : UpdateSnippet(data)
    \/ \E ids \in (SUBSET (FileIds(snippets_file) \cup UnknownIds)) \ {{}} : DeleteSnippets(ids)

Spec == Init /\ [][Next]_vars

(***************************************************************************)
(* The repository with the cleanup of the metadata store                   *)
(***************************************************************************)
\* metadata_manager.cleanup_unused_metadata(keep_unused): the metadata are saved only
\* when a record was removed
CleanupUnusedMetadata(keep_unused) ==
    /\ startup # "pending"
    /\ metadata' = cleanup_unused_metadata(metadata, keep_unused)
    /\ metadata_file' = IF metadata' # metadata
                         THEN save_metadata(metadata_file, metadata', "ok").file
                         ELSE metadata_file
    /\ last' = [NoCall EXCEPT !.op = "cleanup", !.data = [keep_unused |-> keep_unused]]
    /\ UNCHANGED <<snippets_file, other_dir, uuid_next, startup>>
    /\ UNCHANGED guiVars

NextCleanup ==
    \/ Startup
    \/ \E data \in SnippetData({0}) : AddSnippet(data)
    \/ \E data \in SnippetData(FileIds(snippets_file) \cup UnknownIds) : UpdateSnippet(data)
    \/ \E ids \in (SUBSET (FileIds(snippets_file) \cup UnknownIds)) \ {{}} : DeleteSnippets(ids)
    \/ \E keep_unused \in BOOLEAN : CleanupUnusedMetadata(keep_unused)

SpecCleanup == Init /\ [][NextCleanup]_vars

(***************************************************************************)
(* Two repositories in one process: DataManager("data") and a DataManager  *)
(* for a second data directory.  data_manager.py and snippet.py import the *)
(* module-level metadata_manager, constructed with its default path        *)
(* data/metadata.json, so both repositories work on `metadata` and         *)
(* `metadata_file`; only snippets.json is taken from the data directory.   *)
(***************************************************************************)
\* what the second directory holds before its repository is constructed: nothing, or a
\* snippet and the metadata.json that an earlier process wrote there
OtherDirs ==
    { OtherDirUnused,
      [snippets_file |-> <<InitSnippet(201, 21, <<>>)>>,
       metadata_file |-> [categories |-> <<[id |-> 21, name |-> <<"y">>, usage_count |-> 1]>>,
                          labels |-> <<>>],
       startup |-> "pending"] }

InitDirs ==
    /\ \E disk \in InitDisks :
          snippets_file = disk.file /\ metadata = disk.md /\ metadata_file = disk.md
    /\ other_dir \in OtherDirs
    /\ uuid_next = 10
    /\ startup = "pending"
    /\ last = NoCall
    /\ StateInit

\* the second repository as its calls see it: its own snippets.json, the shared metadata
OtherRepo == [file |-> other_dir.snippets_file, md |-> metadata, n |-> uuid_next]

\* the writes of a call of the second repository, and the record of the call
CommitOther(res, record) ==
    /\ res.n <= MaxUuid + 1
    /\ other_dir' = [other_dir EXCEPT !.snippets_file = res.file]
    /\ metadata' = res.md
    /\ metadata_file' = res.md
    /\ uuid_next' = res.n
    /\ last' = [record EXCEPT !.ret = res.ret]
    /\ UNCHANGED <<snippets_file, startup>>
    /\ UNCHANGED guiVars

\* DataManager(other).__init__ -> _validate_metadata_on_startup
ConstructOther ==
    /\ startup # "pending"
    /\ other_dir.startup = "pending"
    /\ IF other_dir.snippets_file = <<>>
       THEN /\ other_dir' = [other_dir EXCEPT !.startup = "skipped"]
            /\ UNCHANGED <<metadata, metadata_file>>
       ELSE /\ other_dir' = [other_dir EXCEPT !.startup = "validated"]
            /\ \E co \in Orders(orphaned_categories(metadata, other_dir.snippets_file)),
                  lo \in Orders(orphaned_labels(metadata, other_dir.snippets_file)) :
                   metadata' = validate_and_refresh_from_snippets(metadata, other_dir.snippets_file, co, lo)
            /\ metadata_file' = metadata'
    /\ last' = [NoCall EXCEPT !.op = "other_startup"]
    /\ UNCHANGED <<snippets_file, uuid_next, startup>>
    /\ UNCHANGED guiVars

AddSnippetOther(data) ==
    /\ other_dir.startup # "pending"
    /\ Len(other_dir.snippets_file) < MaxSnippets
    /\ CommitOther(add_snippet(OtherRepo, data, "ok"),
                   [NoCall EXCEPT !.op = "other_add", !.data = data])

UpdateSnippetOther(data) ==
    /\ other_dir.startup # "pending"
    /\ CommitOther(update_snippet(OtherRepo, data, "ok"),
                   [NoCall EXCEPT !.op = "other_update", !.data = data])

DeleteSnippetsOther(ids) ==
    /\ other_dir.startup # "pending"
    /\ CommitOther(delete_snippets(OtherRepo, ids, "ok"),
                   [NoCall EXCEPT !.op = "other_delete_many", !.ids = ids])

NextDirs ==
    \/ Startup
    \/ \E data \in SnippetData({0}) : AddSnippet(data)
    \/ \E ids \in (SUBSET FileIds(snippets_file)) \ {{}} : DeleteSnippets(ids)
    \/ ConstructOther
    \/ \E data \in SnippetData({0}) : AddSnippetOther(data)
    \/ \E data \in SnippetData(FileIds(other_dir.snippets_file)) : UpdateSnippetOther(data)
    \/ \E ids \in (SUBSET FileIds(other_dir.snippets_file)) \ {{}} : DeleteSnippetsOther(ids)

SpecDirs == InitDirs /\ [][NextDirs]_vars

(***************************************************************************)
(* The repository called with any data, valid or not, and with writes of   *)
(* snippets.json that can fail.                                            *)
(***************************************************************************)
ValidData == [id |-> 0, name |-> <<"A">>, category |-> <<"x">>, prompt_text |-> <<"h", "i">>,
              labels |-> <<>>, exclusive |-> FALSE]

\* valid data, and data with a ';' in the prompt text, an empty name, an empty category,
\* an empty prompt text, a comma in the category
AnyData(ids) ==
    { [d EXCEPT !.id = id] :
         id \in ids,
         d \in { ValidData,
                 [ValidData EXCEPT !.prompt_text = <<"h", ";", "i">>],
                 [ValidData EXCEPT !.name = <<>>],
                 [ValidData EXCEPT !.category = <<>>],
                 [ValidData EXCEPT !.prompt_text = <<>>],
                 [ValidData EXCEPT !.category = <<"x", ",", "y">>] } }

IODisks ==
    { [file |-> <<>>, md |-> EmptyMetadata],
      [file |-> <<InitSnippet(101, 1, <<3>>)>>, md |-> KnownMetadata] }

InitIO ==
    /\ \E disk \in IODisks :
          snippets_file = disk.file /\ metadata = disk.md /\ metadata_file = disk.md
    /\ uuid_next = 10
    /\ startup = "pending"
    /\ other_dir = OtherDirUnused
    /\ last = NoCall
    /\ StateInit

AddSnippetIO(data, write) ==
    /\ startup # "pending"
    /\ Len(snippets_file) < MaxSnippets
    /\ Commit(add_snippet(Repo, data, write),
              [NoCall EXCEPT !.op = "add", !.data = data, !.write = write])
    /\ UNCHANGED <<startup, other_dir>>
    /\ UNCHANGED guiVars

UpdateSnippetIO(data, write) ==
    /\ startup # "pending"
    /\ Commit(update_snippet(Repo, data, write),
              [NoCall EXCEPT !.op = "update", !.data = data, !.write = write])
    /\ UNCHANGED <<startup, other_dir>>
    /\ UNCHANGED guiVars

DeleteSnippetsIO(ids, write) ==
    /\ startup # "pending"
    /\ Commit(delete_snippets(Repo, ids, write),
              [NoCall EXCEPT !.op = "delete_many", !.ids = ids, !.write = write])
    /\ UNCHANGED <<startup, other_dir>>
    /\ UNCHANGED guiVars

NextIO ==
    \/ Startup
    \/ \E data \in AnyData({0}), write \in WriteOutcomes : AddSnippetIO(data, write)
    \/ \E data \in AnyData(FileIds(snippets_file)), write \in WriteOutcomes :
          UpdateSnippetIO(data, write)
    \/ \E ids \in (SUBSET FileIds(snippets_file)) \ {{}}, write \in WriteOutcomes :
          DeleteSnippetsIO(ids, write)

SpecIO == InitIO /\ [][NextIO]_vars

(***************************************************************************)
(* The metadata store on its own, called by any caller, with writes of     *)
(* metadata.json that can fail.  last.raised says whether the call raised. *)
(***************************************************************************)
MaxCount == 1          \* increment is called while the count is below this

MetaNames == {<<"x">>}

ItemTypes == {"categories", "labels"}

\* ids the callers pass: those of records, and one that never has a record
MetaIds(md, item_type) == ItemIds(md[item_type]) \cup {5}

\* snippets data passed to refresh_usage_counts and validate_metadata_references: no
\* snippet, or one snippet whose category and label have a record or are ids 1 and 2,
\* which no record has until validate_metadata_references gives them one
MetaSnippets(md) ==
    {<<>>} \cup
    { <<InitSnippet(101, c, l)>> :
         c \in ItemIds(md.categories) \cup {1},
         l \in {<<>>} \cup {<<id>> : id \in ItemIds(md.labels) \cup {2}} }

InitMeta ==
    /\ snippets_file = <<>>
    /\ metadata = EmptyMetadata
    /\ metadata_file = EmptyMetadata
    /\ uuid_next = 12
    /\ startup = "pending"
    /\ other_dir = OtherDirUnused
    /\ last = NoCall
    /\ StateInit

World == [md |-> metadata, n |-> uuid_next]

\* the effect of a store operation that ends in the world w; saves says whether the
\* operation reached its call of _save_metadata
Stored(w, saves, write) ==
    /\ w.n <= MaxUuid + 1
    /\ write # "ok" => metadata_file = metadata   \* failed writes do not follow each other
    /\ uuid_next' = w.n
    /\ IF saves
       THEN LET s == save_metadata(metadata_file, w.md, write)
            IN  metadata' = s.cache /\ metadata_file' = s.file
       ELSE metadata' = w.md /\ UNCHANGED metadata_file
    /\ UNCHANGED <<snippets_file, other_dir, startup>>
    /\ UNCHANGED guiVars

MetaCalled(op, data, saves, write) ==
    [NoCall EXCEPT !.op = op, !.data = data, !.write = write,
                   !.raised = saves /\ write # "ok"]

\* the record of an ensure call that made a record or not and ended in the result res:
\* a call whose write fails raises and returns no id
Ensured(op, name, res, created, write) ==
    [MetaCalled(op, [name |-> name], created, write)
        EXCEPT !.id = IF created /\ write # "ok" THEN 0 ELSE res.id,
               !.created = created]

EnsureCategory(name, write) ==
    LET res == ensure_category_exists(World, name)
        created == IndexOfName(metadata.categories, name) = 0
    IN  /\ Stored(world_of(res), created, write)
        /\ last' = Ensured("ensure_category", name, res, created, write)

EnsureLabel(name, write) ==
    LET res == ensure_label_exists(World, name)
        created == IndexOfName(metadata.labels, name) = 0
    IN  /\ Stored(world_of(res), created, write)
        /\ last' = Ensured("ensure_label", name, res, created, write)

IncrementCount(item_type, item_id, write) ==
    /\ \A i \in 1..Len(metadata[item_type]) : metadata[item_type][i].usage_count < MaxCount
    /\ Stored([md |-> increment_snippet_count(metadata, item_type, item_id), n |-> uuid_next],
              item_id \in ItemIds(metadata[item_type]), write)
    /\ last' = MetaCalled("increment_count", [item_type |-> item_type, item_id |-> item_id],
                          item_id \in ItemIds(metadata[item_type]), write)

DecrementCount(item_type, item_id, write) ==
    /\ Stored([md |-> decrement_snippet_count(metadata, item_type, item_id), n |-> uuid_next],
              item_id \in ItemIds(metadata[item_type]), write)
    /\ last' = MetaCalled("decrement_count", [item_type |-> item_type, item_id |-> item_id],
                          item_id \in ItemIds(metadata[item_type]), write)

RefreshUsageCounts(snippets_data, write) ==
    /\ Stored([md |-> refresh_usage_counts(metadata, snippets_data), n |-> uuid_next],
              TRUE, write)
    /\ last' = MetaCalled("refresh_usage_counts", [snippets_data |-> snippets_data],
                          TRUE, write)

ValidateReferences(snippets_data, cat_order, label_order, write) ==
    /\ Stored([md |-> validate_metadata_references(metadata, snippets_data, cat_order,
                                                   label_order),
               n |-> uuid_next],
              Len(cat_order) + Len(label_order) > 0, write)
    /\ last' = MetaCalled("validate_references",
                          [snippets_data |-> snippets_data, cat_order |-> cat_order,
                           label_order |-> label_order],
                          Len(cat_order) + Len(label_order) > 0, write)

NextMeta ==
    \/ \E name \in MetaNames, write \in WriteOutcomes : EnsureCategory(name, write)
    \/ \E name \in MetaNames, write \in WriteOutcomes : EnsureLabel(name, write)
    \/ \E item_type \in ItemTypes, write \in WriteOutcomes :
          \E item_id \in MetaIds(metadata, item_type) : IncrementCount(item_type, item_id, write)
    \/ \E item_type \in ItemTypes, write \in WriteOutcomes :
          \E item_id \in MetaIds(metadata, item_type) : DecrementCount(item_type, item_id, write)
    \/ \E snippets_data \in MetaSnippets(metadata), write \in WriteOutcomes :
          RefreshUsageCounts(snippets_data, write)
    \/ \E snippets_data \in MetaSnippets(metadata), write \in WriteOutcomes :
          \E co \in Orders(orphaned_categories(metadata, snippets_data)),
             lo \in Orders(orphaned_labels(metadata, snippets_data)) :
                ValidateReferences(snippets_data, co, lo, write)

SpecMeta == InitMeta /\ [][NextMeta]_vars

(***************************************************************************)
(* The selection state on its own: any caller, any sequence of calls.      *)
(***************************************************************************)
StateIds == {101, 102}

CategoryArgs == {<<>>, <<"x">>, <<"y">>}

SearchTexts == {<<>>, <<"a">>}

\* the repository is not constructed
RepoIdle ==
    /\ snippets_file = <<>>
    /\ metadata = EmptyMetadata
    /\ metadata_file = EmptyMetadata
    /\ uuid_next = 10
    /\ startup = "pending"
    /\ other_dir = OtherDirUnused
    /\ last = NoCall

InitState == RepoIdle /\ StateInit

\* the record of a call on the selection state; applied are the exclusive selections
\* the call made, kept while their snippet is in selected_ids
Called(record, applied) ==
    /\ call' = record
    /\ excl_applied' = {p \in excl_applied \cup applied : p[1] \in state_manager'.selected_ids}
    /\ UNCHANGED <<filters, delete_mode, delete_selections>>
    /\ UNCHANGED snippet_list

SetState(snippet_id, state, category, exclusive) ==
    /\ state_manager' = set_state(state_manager, snippet_id, state, category, exclusive)
    /\ Called([NoStateCall EXCEPT !.op = "set_state", !.id = snippet_id, !.state = state,
                                  !.category = category, !.exclusive = exclusive],
              IF state = "selected" /\ exclusive /\ category # <<>>
              THEN {<<snippet_id, category>>} ELSE {})
    /\ UNCHANGED repoVars

ClearAllSelections ==
    /\ state_manager' = clear_all_selections(state_manager)
    /\ Called([NoStateCall EXCEPT !.op = "clear_all_selections"], {})
    /\ UNCHANGED repoVars

ClearSelections(snippet_ids) ==
    /\ state_manager' = clear_selections(state_manager, snippet_ids)
    /\ Called([NoStateCall EXCEPT !.op = "clear_selections", !.ids = snippet_ids], {})
    /\ UNCHANGED repoVars

SetSearchFilter(search_text, filtered_ids) ==
    /\ state_manager' = set_search_filter(state_manager, search_text, filtered_ids)
    /\ Called([NoStateCall EXCEPT !.op = "set_search_filter", !.ids = filtered_ids], {})
    /\ UNCHANGED repoVars

ClearSearchFilter ==
    /\ state_manager' = clear_search_filter(state_manager)
    /\ Called([NoStateCall EXCEPT !.op = "clear_search_filter"], {})
    /\ UNCHANGED repoVars

NextState ==
    \/ \E snippet_id \in StateIds, state \in {"selected", "unselected", "none"},
          category \in CategoryArgs, exclusive \in BOOLEAN :
             SetState(snippet_id, state, category, exclusive)
    \/ ClearAllSelections
    \/ \E snippet_ids \in (SUBSET StateIds) \ {{}} : ClearSelections(snippet_ids)
    \/ \E search_text \in SearchTexts, filtered_ids \in SUBSET StateIds :
             SetSearchFilter(search_text, filtered_ids)
    \/ ClearSearchFilter

SpecState == InitState /\ [][NextState]_vars

(***************************************************************************)
(* The application: the repository, the snippet list and its selection     *)
(* state, driven by the user.  Bulk-delete mode and the filters are not     *)
(* used.                                                                   *)
(***************************************************************************)
\* what the user types into the dialog
DialogFields ==
    [name : {<<"A">>}, category : {<<"x">>, <<"Y", " ">>, <<" ">>}, prompt_text : {<<"h", "i">>},
     labels : {<<>>}, exclusive : BOOLEAN]

ExclusiveSnippet(id, category_id) == [InitSnippet(id, category_id, <<>>) EXCEPT !.exclusive = TRUE]

\* a data directory whose snippets were all deleted, one with two exclusive snippets,
\* and one with a single snippet "B"
ListDisks ==
    { [file |-> <<>>,
       md |-> [categories |-> <<[id |-> 1, name |-> <<"x">>, usage_count |-> 0]>>,
               labels |-> <<>>]],
      [file |-> <<ExclusiveSnippet(101, 1), ExclusiveSnippet(102, 2)>>,
       md |-> [categories |-> <<[id |-> 1, name |-> <<"x">>, usage_count |-> 1],
                                [id |-> 2, name |-> <<"y">>, usage_count |-> 1]>>,
               labels |-> <<>>]],
      [file |-> <<[InitSnippet(101, 2, <<>>) EXCEPT !.name = <<"B">>]>>,
       md |-> [categories |-> <<[id |-> 1, name |-> <<"x">>, usage_count |-> 0],
                                [id |-> 2, name |-> <<"y">>, usage_count |-> 1]>>,
               labels |-> <<>>]] }

InitList ==
    /\ \E disk \in ListDisks :
          snippets_file = disk.file /\ metadata = disk.md /\ metadata_file = disk.md
    /\ uuid_next = 12
    /\ startup = "pending"
    /\ other_dir = OtherDirUnused
    /\ last = NoCall
    /\ StateInit

Gui == [sm |-> state_manager, all_snippets |-> snippet_list.all_snippets,
        snippets |-> snippet_list.snippets]

\* the list state g becomes the state of the list; record is the user's action
ShowItems(g, record) ==
    /\ state_manager' = g.sm
    /\ snippet_list' = [all_snippets |-> g.all_snippets, snippets |-> g.snippets]
    /\ call' = record
    /\ UNCHANGED <<filters, excl_applied>>

\* the tree keeps its items
Show(g, record) ==
    /\ ShowItems(g, record)
    /\ UNCHANGED <<delete_mode, delete_selections>>

\* _refresh_tree_view or load_snippets rebuilt the tree: the items that were marked for
\* deletion are no longer items of the tree
Rebuilt(g, record) ==
    /\ ShowItems(g, record)
    /\ delete_selections' = IF delete_selections = {} THEN {} ELSE {0}
    /\ UNCHANGED delete_mode

\* PromptSnippetsApp.__init__: the repository is constructed, then _load_snippets
AppStart ==
    /\ ValidateOnStartup
    /\ Show(load_snippets(Gui, load_snippets_for_gui(snippets_file, metadata')),
            [NoStateCall EXCEPT !.op = "load"])

\* _on_tree_click on the symbol column of the i-th displayed snippet
OnTreeClick(i) ==
    /\ startup # "pending"
    /\ ~delete_mode
    /\ Show(on_tree_click(Gui, snippet_list.snippets[i]),
            [NoStateCall EXCEPT !.op = "click", !.id = snippet_list.snippets[i].id,
                                !.state = new_state(Gui, snippet_list.snippets[i]),
                                !.category = snippet_list.snippets[i].category,
                                !.exclusive = snippet_list.snippets[i].exclusive,
                                !.refused = click_refused(Gui, snippet_list.snippets[i])])
    /\ UNCHANGED repoVars

\* the clear button: _clear_selections
OnClearSelections ==
    /\ startup # "pending"
    /\ ~delete_mode
    /\ Show([Gui EXCEPT !.sm = clear_all_selections(@)], [NoStateCall EXCEPT !.op = "clear"])
    /\ UNCHANGED repoVars

\* the dialog was closed without a result (Cancel, or Save on fields that are not valid)
NoResult(record) ==
    /\ Show(Gui, record)
    /\ UNCHANGED repoVars

\* _add_new_snippet / _update_snippet: the storage callback, then store and refresh
\* when it returned true
SaveSnippet(snippet, n, record, order) ==
    /\ Commit(on_snippet_edit([file |-> snippets_file, md |-> metadata, n |-> n], snippet),
              [NoCall EXCEPT !.op = "edit", !.data = snippet])
    /\ IF last'.ret THEN Rebuilt(store_and_refresh(Gui, snippet, order), record)
       ELSE Show(Gui, record)
    /\ UNCHANGED <<startup, other_dir>>

\* the add button: _show_snippet_dialog with no snippet, Save, _add_new_snippet
OnAddButton(fields, order) ==
    /\ startup # "pending"
    /\ ~delete_mode
    /\ Len(snippet_list.all_snippets) < MaxSnippets
    /\ IF validate_fields(fields)
       THEN SaveSnippet(prepare_result(fields, uuid_next), uuid_next + 1,
                        [NoStateCall EXCEPT !.op = "add", !.id = uuid_next], order)
       ELSE NoResult([NoStateCall EXCEPT !.op = "add"])

\* double click on the i-th displayed snippet: _edit_snippet, Update Snippet
OnEditUpdate(i, fields, order) ==
    /\ startup # "pending"
    /\ snippet_list.snippets[i].id \in SnippetIds(snippet_list.all_snippets)
    /\ IF validate_fields(fields)
       THEN SaveSnippet(prepare_result(fields, snippet_list.snippets[i].id), uuid_next,
                        [NoStateCall EXCEPT !.op = "update", !.id = snippet_list.snippets[i].id],
                        order)
       ELSE NoResult([NoStateCall EXCEPT !.op = "update"])

\* double click on the i-th displayed snippet: _edit_snippet, Save as New
OnEditSaveAsNew(i, fields, order) ==
    /\ startup # "pending"
    /\ snippet_list.snippets[i].id \in SnippetIds(snippet_list.all_snippets)
    /\ Len(snippet_list.all_snippets) < MaxSnippets
    /\ has_changes(fields, snippet_list.snippets[i])
    /\ IF validate_fields(fields)
       THEN SaveSnippet(prepare_result(fields, uuid_next), uuid_next + 1,
                        [NoStateCall EXCEPT !.op = "save_as_new", !.id = uuid_next], order)
       ELSE NoResult([NoStateCall EXCEPT !.op = "save_as_new"])

\* double click on the i-th displayed snippet: _edit_snippet, Delete, _delete_snippets;
\* the callback of the application deletes from storage and reloads the list
OnEditDelete(i, order) ==
    /\ startup # "pending"
    /\ snippet_list.snippets[i].id \in SnippetIds(snippet_list.all_snippets)
    /\ Commit(delete_snippets(Repo, {snippet_list.snippets[i].id}, "ok"),
              [NoCall EXCEPT !.op = "delete_many", !.ids = {snippet_list.snippets[i].id}])
    /\ Rebuilt(forget_snippets(load_snippets(Gui, load_snippets_for_gui(snippets_file', metadata')),
                               {snippet_list.snippets[i].id}, order),
               [NoStateCall EXCEPT !.op = "delete", !.ids = {snippet_list.snippets[i].id}])
    /\ UNCHANGED <<startup, other_dir>>

\* the delete button outside delete mode: _on_delete_button_click enters the mode
OnDeleteButtonClick ==
    /\ startup # "pending"
    /\ ~delete_mode
    /\ delete_mode' = TRUE
    /\ delete_selections' = {}
    /\ ShowItems(Gui, [NoStateCall EXCEPT !.op = "enter_delete_mode"])
    /\ UNCHANGED repoVars

\* a click on the i-th displayed snippet in delete mode: _handle_delete_mode_click
OnDeleteModeClick(i) ==
    /\ delete_mode
    /\ delete_selections' = toggled(delete_selections, snippet_list.snippets[i].id)
    /\ ShowItems(Gui, [NoStateCall EXCEPT !.op = "delete_mode_click",
                                          !.id = snippet_list.snippets[i].id])
    /\ UNCHANGED <<delete_mode, repoVars>>

\* the delete button in delete mode with nothing marked, or with the confirmation
\* answered no: _confirm_delete leaves the mode
OnConfirmDeleteNo ==
    /\ delete_mode
    /\ delete_mode' = FALSE
    /\ delete_selections' = {}
    /\ ShowItems(Gui, [NoStateCall EXCEPT !.op = "exit_delete_mode"])
    /\ UNCHANGED repoVars

\* the delete button in delete mode, the confirmation answered yes: _delete_snippets on
\* the snippets of the marked items that are still in the tree, then _exit_delete_mode
OnConfirmDeleteYes(order) ==
    /\ delete_mode
    /\ delete_selections # {}
    /\ delete_mode' = FALSE
    /\ delete_selections' = {}
    /\ Commit(delete_snippets(Repo, delete_selections \ {0}, "ok"),
              [NoCall EXCEPT !.op = "delete_many", !.ids = delete_selections \ {0}])
    /\ ShowItems(forget_snippets(load_snippets(Gui, load_snippets_for_gui(snippets_file',
                                                                          metadata')),
                                 delete_selections \ {0}, order),
                 [NoStateCall EXCEPT !.op = "delete", !.ids = delete_selections \ {0}])
    /\ UNCHANGED <<startup, other_dir>>

Displayed == 1..Len(snippet_list.snippets)

RefreshOrders == Orders(state_manager.filtered_ids)

NextList ==
    \/ AppStart
    \/ \E i \in Displayed : OnTreeClick(i)
    \/ OnClearSelections
    \/ \E fields \in DialogFields, order \in RefreshOrders : OnAddButton(fields, order)
    \/ \E i \in Displayed, fields \in DialogFields, order \in RefreshOrders :
          OnEditUpdate(i, fields, order)
    \/ \E i \in Displayed, fields \in DialogFields, order \in RefreshOrders :
          OnEditSaveAsNew(i, fields, order)
    \/ \E i \in Displayed, order \in RefreshOrders : OnEditDelete(i, order)
    \/ OnDeleteButtonClick
    \/ \E i \in Displayed : OnDeleteModeClick(i)
    \/ OnConfirmDeleteNo
    \/ \E order \in RefreshOrders : OnConfirmDeleteYes(order)

SpecList == InitList /\ [][NextList]_vars

(***************************************************************************)
(* The snippet list with its filters: the list is loaded with snippets,    *)
(* the user selects, types in the search entry and clicks the bubbles.     *)
(***************************************************************************)
FilterSnippet(id, name, category, labels, exclusive) ==
    [id |-> id, name |-> name, category |-> category, prompt_text |-> <<"h", "i">>,
     labels |-> labels, exclusive |-> exclusive]

FilterSnippets ==
    << FilterSnippet(101, <<"a", "_", "b">>, <<"x">>, << <<"a">> >>, TRUE),
       FilterSnippet(102, <<"C">>, <<"y">>, << <<"a">>, <<"b">> >>, FALSE) >>

\* _refresh_bubble_filters: one bubble per category and per label of all_snippets
Bubbles(all_snippets) ==
    {<<"category", all_snippets[i].category>> : i \in 1..Len(all_snippets)}
        \cup UNION {{<<"label", l>> : l \in LabelSet(all_snippets[i].labels)} :
                       i \in 1..Len(all_snippets)}

\* what the user types in the search entry
TypedTexts == {<<>>, <<"a", " ", "b">>, <<"C">>}

InitFilter ==
    /\ snippets_file = <<>>
    /\ metadata = EmptyMetadata
    /\ metadata_file = EmptyMetadata
    /\ uuid_next = 10
    /\ startup = "skipped"
    /\ other_dir = OtherDirUnused
    /\ last = NoCall
    /\ state_manager = SnippetStateManager_create
    /\ snippet_list = [all_snippets |-> FilterSnippets, snippets |-> FilterSnippets]
    /\ filters = NoFilters
    /\ delete_mode = FALSE
    /\ delete_selections = {}
    /\ call = NoStateCall
    /\ excl_applied = {}

\* the list state g and the filter state f become the state of the list
ShowFiltered(g, f, record) ==
    /\ state_manager' = g.sm
    /\ snippet_list' = [all_snippets |-> g.all_snippets, snippets |-> g.snippets]
    /\ filters' = f
    /\ call' = record
    /\ UNCHANGED <<delete_mode, delete_selections, excl_applied>>
    /\ UNCHANGED repoVars

\* the user edits the text of the search entry, which has the focus
OnSearchChanged(text, total) ==
    /\ filters.search_var # Placeholder
    /\ filters.search_var # text
    /\ ShowFiltered(on_search_changed(Gui, [filters EXCEPT !.search_var = text], total),
                    [filters EXCEPT !.search_var = text],
                    [NoStateCall EXCEPT !.op = "search_changed"])

\* the search entry gets the focus: _on_search_focus_in
OnSearchFocusIn(total) ==
    /\ filters.search_var = Placeholder
    /\ ShowFiltered(on_search_focus_in(Gui, filters, total),
                    [filters EXCEPT !.search_var = <<>>],
                    [NoStateCall EXCEPT !.op = "focus_in"])

\* the search entry loses the focus with an empty text: _on_search_focus_out
OnSearchFocusOut(total) ==
    /\ strip(filters.search_var) = <<>>
    /\ ShowFiltered(on_search_focus_out(Gui, total),
                    [filters EXCEPT !.search_var = Placeholder],
                    [NoStateCall EXCEPT !.op = "focus_out"])

\* a click on a bubble: _toggle_bubble_filter
ToggleBubbleFilter(filter_type, filter_value, total) ==
    /\ ShowFiltered(toggle_bubble_filter(Gui, filters, filter_type, filter_value, total),
                    bubble_toggled(filters, filter_type, filter_value),
                    [NoStateCall EXCEPT !.op = "toggle_bubble"])

\* a click on the AND/OR button: _toggle_filter_mode
ToggleFilterMode(total) ==
    /\ ShowFiltered(toggle_filter_mode(Gui, filters, total), mode_toggled(filters),
                    [NoStateCall EXCEPT !.op = "toggle_mode"])

\* a click on the clear filters button: _clear_all_filters
ClearAllFilters(total) ==
    /\ ShowFiltered(clear_all_filters(Gui, filters, total), filters_cleared(filters),
                    [NoStateCall EXCEPT !.op = "clear_filters"])

TotalOrders == Orders(SnippetIds(snippet_list.all_snippets))

NextFilter ==
    \/ \E i \in Displayed : OnTreeClick(i)
    \/ OnClearSelections
    \/ \E text \in TypedTexts, total \in TotalOrders : OnSearchChanged(text, total)
    \/ \E total \in TotalOrders : OnSearchFocusIn(total)
    \/ \E total \in TotalOrders : OnSearchFocusOut(total)
    \/ \E b \in Bubbles(snippet_list.all_snippets), total \in TotalOrders :
          ToggleBubbleFilter(b[1], b[2], total)
    \/ \E total \in TotalOrders : ToggleFilterMode(total)
    \/ \E total \in TotalOrders : ClearAllFilters(total)

SpecFilter == InitFilter /\ [][NextFilter]_vars

(***************************************************************************)
(* Properties of the repository and the metadata store                     *)
(***************************************************************************)
UsageCountsMatch(md, file) ==
    /\ \A i \in 1..Len(md.categories) :
          md.categories[i].usage_count = category_refs(file, md.categories[i].id)
    /\ \A i \in 1..Len(md.labels) :
          md.labels[i].usage_count = label_refs(file, md.labels[i].id)

\* C1: once validate_and_refresh has run at startup, after any sequence of successful
\* add, update and delete_many calls every usage_count equals the number of references
\* to its record in the persisted snippets.
C1_UsageCountsMatchReferences ==
    startup = "validated" => UsageCountsMatch(metadata, snippets_file)

\* C7: add followed by delete_many of the new id leaves the usage_count of every record
\* that existed before the add as it was, and that of every record the add created at 0.
C7_AddDeleteRestoresCounts ==
    (last.op = "delete_many" /\ last.ret /\ last.undo) =>
        /\ \A i \in 1..Len(metadata.categories) :
              metadata.categories[i].usage_count =
                 IF i <= Len(last.add_md.categories) THEN last.add_md.categories[i].usage_count ELSE 0
        /\ \A i \in 1..Len(metadata.labels) :
              metadata.labels[i].usage_count =
                 IF i <= Len(last.add_md.labels) THEN last.add_md.labels[i].usage_count ELSE 0
        /\ \A i \in 1..Len(last.add_md.categories) : metadata.categories[i].id = last.add_md.categories[i].id
        /\ \A i \in 1..Len(last.add_md.labels) : metadata.labels[i].id = last.add_md.labels[i].id

\* the round trip was made, the add had created label records and counted an existing
\* category or created one
C7_Witness ==
    /\ last.op = "delete_many" /\ last.ret /\ last.undo
    /\ Len(metadata.labels) > Len(last.add_md.labels)
    /\ Len(metadata.categories) > 0

UsageCountOfName(items, name) ==
    IF IndexOfName(items, name) = 0 THEN 0 ELSE items[IndexOfName(items, name)].usage_count

\* C8: update sanitizes like add: after a successful update with category text T the
\* snippet's category resolves to sanitize(T); the old category's usage_count went down
\* by one and that of the category named sanitize(T) went up by one (when they differ).
C8_UpdateSanitizes ==
    [][(last'.op = "update" /\ last'.ret) =>
          LET i == PositionOfId(snippets_file, last'.data.id)
              old_name == get_category_name(metadata, snippets_file[i])
              new_name == sanitize_category_label(last'.data.category, TRUE)
          IN  /\ get_category_name(metadata', snippets_file'[i]) = new_name
              /\ old_name # new_name =>
                    /\ UsageCountOfName(metadata'.categories, old_name)
                          = UsageCountOfName(metadata.categories, old_name) - 1
                    /\ UsageCountOfName(metadata'.categories, new_name)
                          = UsageCountOfName(metadata.categories, new_name) + 1
      ]_vars

\* C9: a successful update leaves the same ids in the same order; the record with the
\* given id is replaced by the new data and keeps its id, every other record is unchanged.
C9_UpdateReplacesInPlace ==
    [][(last'.op = "update" /\ last'.ret) =>
          /\ Len(snippets_file') = Len(snippets_file)
          /\ \A i \in 1..Len(snippets_file) :
                /\ snippets_file'[i].id = snippets_file[i].id
                /\ snippets_file[i].id # last'.data.id => snippets_file'[i] = snippets_file[i]
                /\ snippets_file[i].id = last'.data.id =>
                      /\ snippets_file'[i].name = last'.data.name
                      /\ snippets_file'[i].prompt_text = last'.data.prompt_text
                      /\ snippets_file'[i].exclusive = last'.data.exclusive
      ]_vars

\* the first of two persisted snippets was updated
C9_Witness ==
    /\ last.op = "update" /\ last.ret
    /\ Len(snippets_file) = 2
    /\ snippets_file[1].id = last.data.id

\* C10: update with an id that is not persisted returns false and changes neither the
\* persisted snippets nor the metadata.
C10_UpdateUnknownIdNoChange ==
    [][(last'.op = "update" /\ last'.data.id \notin FileIds(snippets_file)) =>
          /\ last'.ret = FALSE
          /\ snippets_file' = snippets_file
          /\ metadata' = metadata
      ]_vars

\* update was called with an unknown id on a store that holds snippets and records
C10_Witness ==
    /\ last.op = "update" /\ ~last.ret
    /\ last.data.id \notin FileIds(snippets_file)
    /\ snippets_file # <<>>
    /\ metadata.categories # <<>>

\* the persisted snippets that a delete of ids removes
DeletedBy(file, ids) == SelectSeq(file, LAMBDA sn : sn.id \in ids)

FlooredAtZero(n) == IF n > 0 THEN n ELSE 0

\* C11: delete_many(ids) removes exactly the persisted snippets whose id is in ids, keeps
\* the others in order, creates no metadata record, and lowers the usage_count of each
\* record by the number of references the removed snippets made to its id (category_id or
\* label_ids), every other count being unchanged; ids that are not persisted are skipped.
C11_DeleteDecrementsReferencedRecords ==
    [][(last'.op = "delete_many" /\ last'.ret) =>
          /\ snippets_file' = SelectSeq(snippets_file, LAMBDA sn : sn.id \notin last'.ids)
          /\ Len(metadata'.categories) = Len(metadata.categories)
          /\ Len(metadata'.labels) = Len(metadata.labels)
          /\ \A i \in 1..Len(metadata.categories) :
                metadata'.categories[i] =
                   [metadata.categories[i] EXCEPT !.usage_count =
                       FlooredAtZero(@ - category_refs(DeletedBy(snippets_file, last'.ids),
                                                       metadata.categories[i].id))]
          /\ \A i \in 1..Len(metadata.labels) :
                metadata'.labels[i] =
                   [metadata.labels[i] EXCEPT !.usage_count =
                       FlooredAtZero(@ - label_refs(DeletedBy(snippets_file, last'.ids),
                                                    metadata.labels[i].id))]
      ]_vars

\* C12: after add returns true the persisted collection is the previous one, unchanged
\* and in the same order, followed by exactly one new record.
C12_AddAppendsOneRecord ==
    [][(last'.op = "add" /\ last'.ret) =>
          /\ Len(snippets_file') = Len(snippets_file) + 1
          /\ SubSeq(snippets_file', 1, Len(snippets_file)) = snippets_file
          /\ snippets_file'[Len(snippets_file')].id \notin FileIds(snippets_file)
      ]_vars

\* a snippet was added to a collection that held one
C12_Witness ==
    /\ last.op = "add" /\ last.ret
    /\ Len(snippets_file) = 2
    /\ snippets_file[2].name = last.data.name

\* SnippetDialog._validate_fields and sanitize_category_label: what makes data invalid
InvalidData(data) ==
    \/ strip(data.name) = <<>>
    \/ strip(data.category) = <<>>
    \/ strip(data.prompt_text) = <<>>
    \/ contains_char(data.prompt_text, ";")
    \/ contains_char(data.category, ",")

\* C13: add and update called with invalid data (a ';' in the prompt text, an empty name,
\* category or prompt text, a comma in the category) return false and change neither the
\* persisted snippets nor the metadata records nor any usage_count.
C13_InvalidDataRejected ==
    [][(last'.op \in {"add", "update"} /\ InvalidData(last'.data)) =>
          /\ ~last'.ret
          /\ snippets_file' = snippets_file
          /\ metadata' = metadata
      ]_vars

\* the metadata that the call recorded in l leaves when its write succeeds
MetadataAfter(l) ==
    CASE l.op = "add" -> add_snippet(Repo, l.data, "ok").md
      [] l.op = "update" -> update_snippet(Repo, l.data, "ok").md
      [] l.op = "delete_many" -> delete_snippets(Repo, l.ids, "ok").md

\* C14: when writing snippets.json fails during add, update or delete_many, the call
\* returns false, the persisted snippets keep their previous content, and the changes the
\* call made to the metadata are kept.
C14_FailedWriteKeepsSnippets ==
    [][(last'.op \in {"add", "update", "delete_many"} /\ last'.write # "ok") =>
          /\ ~last'.ret
          /\ snippets_file' = snippets_file
          /\ metadata' = MetadataAfter(last')
      ]_vars

\* what the metadata is after the store operation recorded in c, from the metadata md
MetadataOfCall(md, n, c) ==
    CASE c.op = "ensure_category" ->
            ensure_category_exists([md |-> md, n |-> n], c.data.name).md
      [] c.op = "ensure_label" ->
            ensure_label_exists([md |-> md, n |-> n], c.data.name).md
      [] c.op = "increment_count" ->
            increment_snippet_count(md, c.data.item_type, c.data.item_id)
      [] c.op = "decrement_count" ->
            decrement_snippet_count(md, c.data.item_type, c.data.item_id)
      [] c.op = "refresh_usage_counts" ->
            refresh_usage_counts(md, c.data.snippets_data)
      [] c.op = "validate_references" ->
            validate_metadata_references(md, c.data.snippets_data, c.data.cat_order,
                                         c.data.label_order)

MetaOps ==
    {"ensure_category", "ensure_label", "increment_count", "decrement_count",
     "refresh_usage_counts", "validate_references"}

\* whether the store operation recorded in c, called on md, writes metadata.json
WritesMetadata(md, c) ==
    CASE c.op = "ensure_category" -> IndexOfName(md.categories, c.data.name) = 0
      [] c.op = "ensure_label" -> IndexOfName(md.labels, c.data.name) = 0
      [] c.op \in {"increment_count", "decrement_count"} ->
            c.data.item_id \in ItemIds(md[c.data.item_type])
      [] c.op = "refresh_usage_counts" -> TRUE
      [] c.op = "validate_references" ->
            Len(c.data.cat_order) + Len(c.data.label_order) > 0

\* C15: a metadata store operation whose write of metadata.json fails does not raise,
\* and the cache holds the new value after it.
C15_FailedMetadataWriteIsCaught ==
    [][(last'.op \in MetaOps /\ last'.write # "ok" /\ WritesMetadata(metadata, last')) =>
          /\ ~last'.raised
          /\ metadata' = MetadataOfCall(metadata, uuid_next, last')]_vars

\* the records of after from position Len(before) + 1 on are placeholders named name
\* with usage_count 0 for ids in orphans, and the records of before are kept as they are
PlaceholdersAdded(before, after, orphans, name) ==
    /\ Len(after) >= Len(before)
    /\ SubSeq(after, 1, Len(before)) = before
    /\ \A k \in (Len(before) + 1)..Len(after) :
          /\ after[k].name = name
          /\ after[k].usage_count = 0
          /\ after[k].id \in orphans

\* C22: after validate_references(snippets) every category id and label id of the
\* snippets has a record; the records created are named "Unknown Category" / "Unknown
\* Label" with usage_count 0, the records that existed are unchanged and the snippets are
\* left as they are.
C22_ValidateGivesEveryIdARecord ==
    [][(last'.op = "validate_references") =>
          /\ \A i \in 1..Len(last'.data.snippets_data) :
                last'.data.snippets_data[i].category_id \in ItemIds(metadata'.categories)
          /\ \A p \in LabelRefPositions(last'.data.snippets_data) :
                last'.data.snippets_data[p[1]].label_ids[p[2]] \in ItemIds(metadata'.labels)
          /\ PlaceholdersAdded(metadata.categories, metadata'.categories,
                               orphaned_categories(metadata, last'.data.snippets_data),
                               <<"U","n","k","n","o","w","n"," ","C","a","t","e","g","o","r","y">>)
          /\ PlaceholdersAdded(metadata.labels, metadata'.labels,
                               orphaned_labels(metadata, last'.data.snippets_data),
                               <<"U","n","k","n","o","w","n"," ","L","a","b","e","l">>)
          /\ snippets_file' = snippets_file]_vars

\* validate_references has given records to orphaned ids next to records that existed
C22_Witness ==
    /\ last.op = "validate_references"
    /\ \E k \in 2..Len(metadata.categories) :
          metadata.categories[k].name = UnknownCategory /\ metadata.categories[1].name # UnknownCategory
    /\ \E k \in 2..Len(metadata.labels) :
          metadata.labels[k].name = UnknownLabel /\ metadata.labels[1].name # UnknownLabel

\* every category_id and label id of the snippets has a record in md
ReferencesHaveRecords(md, snippets) ==
    /\ \A i \in 1..Len(snippets) : snippets[i].category_id \in ItemIds(md.categories)
    /\ \A p \in LabelRefPositions(snippets) :
          snippets[p[1]].label_ids[p[2]] \in ItemIds(md.labels)

\* C23: once the repository is constructed, and before any other call, every category_id
\* and label id of the persisted snippets has a metadata record and every usage_count
\* equals the number of references from the persisted snippets, whatever the files held
\* before startup.
C23_StartupLeavesMetadataConsistent ==
    (startup # "pending" /\ last.op = "none") =>
        /\ ReferencesHaveRecords(metadata, snippets_file)
        /\ UsageCountsMatch(metadata, snippets_file)

\* the metadata operations that look a name up and create its record when absent
EnsureOps == {"ensure_category", "ensure_label"}

\* the records an ensure operation works on
EnsuredItems(md, op) == IF op = "ensure_category" THEN md.categories ELSE md.labels

\* C26: ensure_category(name) and ensure_label(name) are idempotent: a second call with
\* the same name returns the id the first returned and leaves the records and all usage
\* counts unchanged, and a record created by a call has usage_count 0.
C26_EnsureIsIdempotent ==
    [][(last'.op \in EnsureOps) =>
          /\ (last.op = last'.op /\ last.data = last'.data /\ last.id # 0) =>
                (last'.id = last.id /\ metadata' = metadata /\ ~last'.created)
          /\ (IndexOfName(EnsuredItems(metadata, last'.op), last'.data.name) # 0) =>
                /\ metadata' = metadata
                /\ last'.id = EnsuredItems(metadata, last'.op)
                                 [IndexOfName(EnsuredItems(metadata, last'.op), last'.data.name)].id
          /\ last'.created =>
                /\ Len(EnsuredItems(metadata', last'.op)) = Len(EnsuredItems(metadata, last'.op)) + 1
                /\ EnsuredItems(metadata', last'.op)[Len(EnsuredItems(metadata', last'.op))]
                      = new_item(uuid_next, last'.data.name)]_vars

\* ensure_category has returned the id of a record an earlier call created, whose
\* usage_count has been raised since
C26_Witness ==
    /\ last.op = "ensure_category"
    /\ ~last.created
    /\ last.id >= 12
    /\ \E k \in 1..Len(metadata.categories) :
          metadata.categories[k].id = last.id /\ metadata.categories[k].usage_count > 0

\* the records of before whose id has no record in after
RemovedItems(before, after) ==
    {before[i] : i \in {j \in 1..Len(before) : before[j].id \notin ItemIds(after)}}

\* C27: only cleanup_unused_metadata with keep_unused = false removes a category or label
\* record (add, update, delete_many, the startup validation and cleanup with keep_unused
\* = true remove none), and every record it removes has usage_count 0 and is referenced
\* by no persisted snippet.
C27_OnlyCleanupRemovesUnreferenced ==
    [][/\ (RemovedItems(metadata.categories, metadata'.categories)
              \cup RemovedItems(metadata.labels, metadata'.labels) # {}) =>
             (last'.op = "cleanup" /\ ~last'.data.keep_unused)
       /\ \A item \in RemovedItems(metadata.categories, metadata'.categories) :
             item.usage_count = 0 /\ category_refs(snippets_file, item.id) = 0
       /\ \A item \in RemovedItems(metadata.labels, metadata'.labels) :
             item.usage_count = 0 /\ label_refs(snippets_file, item.id) = 0]_vars

\* the calls of the repository of the second data directory
OtherOps == {"other_startup", "other_add", "other_update", "other_delete_many"}

\* C28: a repository keeps its category / label metadata in its own data directory: the
\* startup validation, add, update and delete_many of the repository of the second
\* directory leave the records and counts of the first as they are, and the ids its
\* snippets refer to have their records in the metadata.json of its own directory.
C28_DirectoriesKeepTheirMetadata ==
    [][(last'.op \in OtherOps) =>
          /\ metadata' = metadata
          /\ metadata_file' = metadata_file
          /\ ReferencesHaveRecords(other_dir'.metadata_file, other_dir'.snippets_file)]_vars

\* no two records of items have the same name
NamesUnique(items) ==
    \A j, k \in 1..Len(items) : (items[j].name = items[k].name) => (j = k)

\* C24: in every reachable state of the metadata store no two category records have the
\* same name and no two label records have the same name.
C24_RecordNamesUnique ==
    NamesUnique(metadata.categories) /\ NamesUnique(metadata.labels)

\* C25: the label_ids of every persisted snippet hold no id twice: a label given more
\* than once to add or update is stored as one reference.
C25_NoDuplicateLabelIds ==
    \A i \in 1..Len(snippets_file) :
       \A j, k \in 1..Len(snippets_file[i].label_ids) :
          (snippets_file[i].label_ids[j] = snippets_file[i].label_ids[k]) => (j = k)

(***************************************************************************)
(* Properties of the selection state                                       *)
(***************************************************************************)
\* C4: once set_state(A, SELECTED, c, True) has been applied, can_select_snippet(B, c,
\* True) is false for every other snippet B for as long as A is in selected_ids, whatever
\* calls are made in between, and it is true again once A is out of selected_ids (no
\* other snippet having made such a call for c and still being selected).
C4_ExclusiveSlotHeldUntilReleased ==
    /\ \A p \in excl_applied : \A B \in StateIds \ {p[1]} :
          ~can_select_snippet(state_manager, B, p[2], TRUE)
    /\ \A c \in CategoryArgs \ {<<>>} :
          (\A p \in excl_applied : p[2] # c) =>
              \A B \in StateIds : can_select_snippet(state_manager, B, c, TRUE)

\* C5: after set_state(id, UNSELECTED, ...) or set_state(id, None, ...), whatever the
\* category argument, id is not in selected_ids and no category_selections entry holds id.
C5_DeselectDropsTracking ==
    (call.op = "set_state" /\ call.state \in {"unselected", "none"}) =>
        /\ call.id \notin state_manager.selected_ids
        /\ \A c \in DOMAIN state_manager.category_selections :
              state_manager.category_selections[c] # call.id

(***************************************************************************)
(* Properties of the snippet list                                          *)
(***************************************************************************)
SelectedExclusive(i) ==
    /\ snippet_list.all_snippets[i].id \in state_manager.selected_ids
    /\ snippet_list.all_snippets[i].exclusive

\* C2: in every state of the snippet list, whatever clicks, adds, updates, deletes and
\* reloads led to it, no category holds two distinct selected snippets that are both
\* exclusive.
C2_OneSelectedExclusivePerCategory ==
    \A i, j \in 1..Len(snippet_list.all_snippets) :
        (i # j /\ SelectedExclusive(i) /\ SelectedExclusive(j)) =>
            snippet_list.all_snippets[i].category # snippet_list.all_snippets[j].category

\* C3: after every operation of the snippet list, each entry category_selections[c] = s
\* has s in selected_ids, and s is a snippet whose current category is c and that is
\* exclusive.
C3_CategorySelectionsInvariant ==
    \A c \in DOMAIN state_manager.category_selections :
        /\ state_manager.category_selections[c] \in state_manager.selected_ids
        /\ \E i \in 1..Len(snippet_list.all_snippets) :
              /\ snippet_list.all_snippets[i].id = state_manager.category_selections[c]
              /\ snippet_list.all_snippets[i].category = c
              /\ snippet_list.all_snippets[i].exclusive

\* C6: a click that would select snippet s is refused exactly when can_select_snippet(s.id,
\* s.category, s.exclusive) is false in the selection state of the click, and s is
\* recorded as selected exactly when it is true.
C6_ClickFollowsCanSelect ==
    [][(call'.op = "click" /\ call'.state = "selected") =>
          /\ call'.refused
                <=> ~can_select_snippet(state_manager, call'.id, call'.category, call'.exclusive)
          /\ (call'.id \in state_manager'.selected_ids /\ ~call'.refused)
                <=> can_select_snippet(state_manager, call'.id, call'.category, call'.exclusive)
      ]_vars

\* the fields of a snippet of the list other than its id
Content(snippet) ==
    [name |-> snippet.name, category |-> snippet.category, prompt_text |-> snippet.prompt_text,
     labels |-> snippet.labels, exclusive |-> snippet.exclusive]

\* the snippet is the only one of the list with its content
OnlyOne(all_snippets, snippet) ==
    \A k \in 1..Len(all_snippets) :
       Content(all_snippets[k]) = Content(snippet) => all_snippets[k].id = snippet.id

\* none of the ids is selected, has a state or holds a category
Forgotten(sm, ids) ==
    /\ ids \cap sm.selected_ids = {}
    /\ ids \cap DOMAIN sm.state_map = {}
    /\ \A c \in DOMAIN sm.category_selections : sm.category_selections[c] \notin ids

\* C20: after a deletion through the snippet list no deleted id is in selected_ids, in
\* state_map or held in category_selections, and every snippet that remains in the list
\* has the selection state it had before the deletion.
C20_DeleteKeepsOtherSelections ==
    [][(call'.op = "delete") =>
          /\ Forgotten(state_manager', call'.ids)
          /\ \A i \in 1..Len(snippet_list.all_snippets),
                j \in 1..Len(snippet_list'.all_snippets) :
                (/\ snippet_list.all_snippets[i].id \notin call'.ids
                 /\ Content(snippet_list.all_snippets[i]) = Content(snippet_list'.all_snippets[j])
                 /\ OnlyOne(snippet_list.all_snippets, snippet_list.all_snippets[i])
                 /\ OnlyOne(snippet_list'.all_snippets, snippet_list'.all_snippets[j])) =>
                   get_state(state_manager', snippet_list'.all_snippets[j].id)
                      = get_state(state_manager, snippet_list.all_snippets[i].id)]_vars

\* C21: in the state right after bulk-delete mode is entered, selected_ids and
\* category_selections are empty and every snippet is unselected.
C21_DeleteModeStartsUnselected ==
    (call.op = "enter_delete_mode") =>
       /\ delete_mode
       /\ state_manager.selected_ids = {}
       /\ DOMAIN state_manager.category_selections = {}
       /\ \A id \in SnippetIds(snippet_list.all_snippets) :
             get_state(state_manager, id) = "unselected"

\* C29: after every successful add, update or delete made through the snippet list, the
\* ids the list tracks (all_snippets) are exactly the ids of the persisted snippets.
C29_ListIdsArePersistedIds ==
    (/\ last.ret
     /\ \/ call.op \in {"add", "update", "save_as_new"} /\ call.id # 0
        \/ call.op = "delete") =>
        SnippetIds(snippet_list.all_snippets) = FileIds(snippets_file)

(***************************************************************************)
(* Properties of the filters                                               *)
(***************************************************************************)
BubbleOps == {"toggle_bubble", "toggle_mode"}

FilterOps ==
    {"search_changed", "focus_in", "focus_out", "toggle_bubble", "toggle_mode", "clear_filters"}

\* the snippets of the list as a set
SnippetsIn(all_snippets) == {all_snippets[i] : i \in 1..Len(all_snippets)}

\* the snippets whose category is one of cats (any when cats is empty) and that carry
\* every label of labels
AndModeIds(all_snippets, cats, labels) ==
    {sn.id : sn \in {t \in SnippetsIn(all_snippets) :
                        /\ (cats = {} \/ t.category \in cats)
                        /\ \A l \in labels : \E k \in 1..Len(t.labels) : t.labels[k] = l}}

\* C16: in AND mode the bubble-filter match set is the snippets whose category is one of
\* the active category filters (any category when none is active) and whose labels
\* include every active label filter.
C16_AndModeMatchSet ==
    [][(/\ call'.op \in BubbleOps
        /\ filters'.filter_mode = "AND"
        /\ bubbles_active(filters')
        /\ ~has_text_search(filters')) =>
          state_manager'.filtered_ids
             = AndModeIds(snippet_list'.all_snippets, filters'.active_category_filters,
                          filters'.active_label_filters)]_vars

\* the snippets whose category is one of cats or that carry a label of labels
OrModeIds(all_snippets, cats, labels) ==
    {sn.id : sn \in {t \in SnippetsIn(all_snippets) :
                        \/ t.category \in cats
                        \/ \E l \in labels : \E k \in 1..Len(t.labels) : t.labels[k] = l}}

\* C17: in OR mode with a bubble active the match set is the snippets whose category is
\* an active category filter or that carry an active label filter; an empty active set
\* matches nothing.
C17_OrModeMatchSet ==
    [][(/\ call'.op \in BubbleOps
        /\ filters'.filter_mode = "OR"
        /\ bubbles_active(filters')
        /\ ~has_text_search(filters')) =>
          /\ state_manager'.is_filtered
          /\ state_manager'.filtered_ids
                = OrModeIds(snippet_list'.all_snippets, filters'.active_category_filters,
                            filters'.active_label_filters)
          /\ SnippetIds(snippet_list'.snippets) = state_manager'.filtered_ids]_vars

\* OR mode was applied with one of the two active sets empty, and a snippet is hidden
C17_Witness ==
    /\ call.op \in BubbleOps
    /\ filters.filter_mode = "OR"
    /\ ~has_text_search(filters)
    /\ filters.active_category_filters = {}
    /\ filters.active_label_filters # {}
    /\ state_manager.filtered_ids # {}
    /\ state_manager.filtered_ids # SnippetIds(snippet_list.all_snippets)

\* q is a substring of the lowercased text or of its underscore-to-space variant
TextHas(q, text) == in_text(q, lower(text)) \/ in_text(q, replace(lower(text), "_", " "))

TextMatchIds(all_snippets, q) ==
    {sn.id : sn \in {t \in SnippetsIn(all_snippets) :
                        \/ TextHas(q, t.name)
                        \/ TextHas(q, t.category)
                        \/ TextHas(q, t.prompt_text)
                        \/ \E k \in 1..Len(t.labels) : TextHas(q, t.labels[k])}}

\* C18: with a query q in the search entry the filtered ids are the ids matching the
\* bubble filters intersected with the ids whose name, category, prompt text or a label
\* contains q, case-insensitively, as written or with underscores as spaces - whether the
\* search text changed or a bubble or the mode was toggled.
C18_TextAndBubblesIntersect ==
    [][(call'.op \in BubbleOps \cup {"search_changed"} /\ has_text_search(filters')) =>
          state_manager'.filtered_ids
             = get_bubble_filtered_ids(snippet_list'.all_snippets, filters')
                  \cap TextMatchIds(snippet_list'.all_snippets, search_text_of(filters'))]_vars

\* C19: no filter operation changes selected_ids or the selection state of a snippet; a
\* selected snippet that a filter hides is still selected when the filter is cleared.
C19_FiltersKeepSelections ==
    [][(call'.op \in FilterOps) =>
          /\ state_manager'.selected_ids = state_manager.selected_ids
          /\ \A id \in SnippetIds(snippet_list.all_snippets) :
                get_state(state_manager', id) = get_state(state_manager, id)
          /\ ~state_manager'.is_filtered =>
                \A id \in state_manager.selected_ids \ SnippetIds(snippet_list.snippets) :
                   /\ id \in state_manager'.selected_ids
                   /\ id \in SnippetIds(snippet_list'.snippets)]_vars

\* a filter operation has hidden a selected snippet
C19_Witness ==
    /\ call.op \in FilterOps
    /\ state_manager.is_filtered
    /\ \E id \in state_manager.selected_ids : id \notin SnippetIds(snippet_list.snippets)

\* the ids of the snippets that match the filter configuration f: the bubble filters
\* under the mode of f, intersected with the search text; no bubble, or no text, matches
\* every snippet
MatchingIds(all_snippets, f) ==
    (IF ~bubbles_active(f) THEN SnippetIds(all_snippets)
     ELSE IF f.filter_mode = "AND"
          THEN AndModeIds(all_snippets, f.active_category_filters, f.active_label_filters)
          ELSE OrModeIds(all_snippets, f.active_category_filters, f.active_label_filters))
    \cap (IF has_text_search(f) THEN TextMatchIds(all_snippets, search_text_of(f))
          ELSE SnippetIds(all_snippets))

\* C30: in every reachable state of the snippet list the displayed snippets are exactly
\* the snippets of the full set that match the active filter configuration, and all
\* snippets are displayed when there is no text and no bubble filter; this holds after
\* the search box loses focus.
C30_DisplayedAreTheMatching ==
    SnippetIds(snippet_list.snippets) = MatchingIds(snippet_list.all_snippets, filters)

=============================================================================
